---- MODULE Spec2Model ----
(***************************************************************************)
(* A model of pblog's package codec (src/pblog/package.py): the Package    *)
(* entity, its metadata operations and its HTML content,                   *)
(* ResourceHandler.save, the resource resolution of build_package, the     *)
(* resource extraction of read_package, and build_package / read_package.  *)
(* Around the codec: parse_markdown (src/pblog/markdown.py), the meta and  *)
(* summary preprocessors (src/pblog/markdown/extensions), the two POST     *)
(* views of the API (src/flask_pblog/resources.py), two threads in         *)
(* read_package at once, Package objects that share the default post_id,   *)
(* and the publish command (src/pblog/cli.py).                             *)
(*                                                                         *)
(* Python values are tagged records [t, v] so that None, strings, integers *)
(* and dates can be compared with each other, as Python's == and != do.    *)
(* A string is a sequence of one-character strings.                        *)
(***************************************************************************)
EXTENDS Integers, Sequences, FiniteSets, TLC

VARIABLES
    pkg,        \* the Package object the caller holds (NoPackage before one exists)
    call,       \* the last operation called: its name, arguments and outcome
    repeated,   \* "no", or, when the last call repeats the call before it with the
                \* same arguments, whether that earlier call "changed" the Package
                \* or left it "unchanged"
    fs,         \* the file system: its directories and the content of its files
    tar,        \* the package archive: its members, in the order they were added
    built,      \* the Package build_package returned when it wrote the archive
    markdown_parser,    \* what the module-level parser holds since its last convert
    storage,    \* the posts the server stores, in the order they were created
    threads,    \* the read_package calls the threads of the server are in: where
                \* each call stands and what its local variables hold
    objects,    \* the Package objects a caller constructed itself, and the dict
                \* that is the default of the post_id argument of Package.__init__
    remote      \* per environment, the posts the blog of that environment holds
                \* and the post it created for the source file, if any

pkgVars == <<pkg, repeated>>
codecVars == <<tar, built, markdown_parser>>
serverVars == <<storage, threads, objects, remote>>
vars == <<pkg, call, repeated, fs, tar, built, markdown_parser, storage, threads, objects, remote>>

\* the objects of a process that constructed no Package itself
PackageRefs == 1..2
NoObjects == [default_post_id |-> << >>, packages |-> [i \in PackageRefs |-> [t |-> "nopackage"]]]

\* the server stores nothing, no thread is at work, no Package was constructed
ServerIdle == storage = <<>> /\ threads = <<>> /\ objects = NoObjects /\ remote = <<>>

(***************************************************************************)
(* Bounds of the model.                                                    *)
(***************************************************************************)
MaxId == 1      \* remote post identifiers are 1..MaxId
MaxDate == 2    \* dates are day numbers 1..MaxDate
MaxDepth == 2   \* a resource path has at most MaxDepth segments
MaxFiles == 2   \* no save creates a file once the file system holds MaxFiles files
MaxRefs == 2    \* a markdown text references at most MaxRefs resources
MaxLines == 4   \* a preprocessor is run on at most MaxLines lines
MaxTokenAge == 3    \* a token is up to MaxTokenAge time units old

(***************************************************************************)
(* Python values.                                                          *)
(***************************************************************************)
None == [t |-> "none", v |-> <<>>]
StrV(s) == [t |-> "str", v |-> s]
IntV(n) == [t |-> "int", v |-> n]
DateV(n) == [t |-> "date", v |-> n]

Envs == {"dev", "prod"}
Ids == {IntV(n) : n \in 1..MaxId}
Dates == {DateV(n) : n \in 1..MaxDate}

\* dict values: functions from a subset of the environment names
PostIds == UNION {[D -> Ids \cup {None}] : D \in SUBSET Envs}
EmptyDict == [e \in {} |-> None]

Lower == [c \in {"A", "b", " ", "!", "-", "_"} |->
            IF c = "A" THEN "a" ELSE c]
SlugChars == {"A", "a", "b", "-", "_"}

\* re.match('^[A-Za-z0-9_-]+$', s)
MatchesSlugRegex(s) == Len(s) > 0 /\ \A i \in 1..Len(s) : s[i] \in SlugChars

(***************************************************************************)
(* python-slugify: lower-case, every run of characters outside [-a-z0-9]   *)
(* becomes one hyphen, runs of hyphens collapse, hyphens are stripped from *)
(* both ends.                                                              *)
(***************************************************************************)
RECURSIVE CollapseDashes(_)
CollapseDashes(s) ==
    IF Len(s) < 2 THEN s
    ELSE IF s[1] = "-" /\ s[2] = "-" THEN CollapseDashes(Tail(s))
    ELSE <<s[1]>> \o CollapseDashes(Tail(s))

RECURSIVE StripLeft(_)
StripLeft(s) == IF Len(s) > 0 /\ s[1] = "-" THEN StripLeft(Tail(s)) ELSE s

RECURSIVE StripRight(_)
StripRight(s) ==
    IF Len(s) > 0 /\ s[Len(s)] = "-" THEN StripRight(SubSeq(s, 1, Len(s) - 1)) ELSE s

slugify(s) ==
    LET lowered == [i \in 1..Len(s) |-> Lower[s[i]]]
        dashed == [i \in 1..Len(s) |->
                     IF lowered[i] \in {"a", "b", "-"} THEN lowered[i] ELSE "-"]
    IN StripRight(StripLeft(CollapseDashes(dashed)))

(***************************************************************************)
(* Markdown text: the front matter as a mapping (NoMeta when the text has  *)
(* no front-matter block, EmptyMeta when the block holds nothing) and the  *)
(* body that follows it.                                                   *)
(***************************************************************************)
NoMeta == [t |-> "nometa", v |-> <<>>]
EmptyMeta == [t |-> "emptymeta", v |-> <<>>]
MetaV(m) == [t |-> "meta", v |-> m]

\* a text: its front matter, the items of its body and its line terminator
Text(meta, body, eol) == [meta |-> meta, body |-> body, eol |-> eol]
TextLine(s) == [kind |-> "text", s |-> s, path |-> <<>>]

\* markdown_extra.meta.inject_meta(text, new_fields, update=True): the new
\* fields are merged over the existing front matter, the body is kept.
inject_meta(text, new_fields) ==
    LET old == IF text.meta \in {NoMeta, EmptyMeta} THEN EmptyDict ELSE text.meta.v
        merged == [k \in DOMAIN old \cup DOMAIN new_fields |->
                     IF k \in DOMAIN new_fields THEN new_fields[k] ELSE old[k]]
    IN [text EXCEPT !.meta = MetaV(merged)]

(***************************************************************************)
(* Paths and the file system.  A pathlib.Path is its anchor (absolute or   *)
(* not) and its segments; pathlib keeps ".." segments and drops "." ones.  *)
(* The file system holds directories and files under their normalized      *)
(* absolute segments; the current directory is "/".                        *)
(***************************************************************************)
Path(abs, parts) == [abs |-> abs, parts |-> parts]

\* pathlib's `/` operator
Join(base, path) ==
    IF path.abs THEN path ELSE Path(base.abs, base.parts \o path.parts)

\* os.path.abspath on the segments of an absolute path: ".." removes the
\* segment before it, and stays at "/" when there is none
RECURSIVE Collapse(_, _)
Collapse(done, rest) ==
    IF rest = <<>> THEN done
    ELSE IF Head(rest) = ".."
         THEN Collapse(IF done = <<>> THEN <<>> ELSE SubSeq(done, 1, Len(done) - 1),
                       Tail(rest))
         ELSE Collapse(Append(done, Head(rest)), Tail(rest))

\* normalize_path: NotAbsolute stands for the ValueError
NotAbsolute == [abs |-> FALSE, parts |-> <<"ValueError">>]
normalize_path(path) ==
    IF ~path.abs THEN NotAbsolute ELSE Path(TRUE, Collapse(<<>>, path.parts))

\* pathlib's Path.parents: every proper prefix of the segments, as written
Parents(path) ==
    {Path(path.abs, SubSeq(path.parts, 1, n)) : n \in 0..(Len(path.parts) - 1)}

EmptyFs == [dirs |-> {<<>>}, files |-> <<>>]

\* the operating system walking a path from "/" (an absolute path) or from
\* the current directory, which is "/" too: every directory it goes through
\* must exist; <<"ENOENT">>, which is no file and no directory, when one
\* does not
RECURSIVE Walk(_, _, _)
Walk(state, at, rest) ==
    IF rest = <<>> THEN at
    ELSE IF at \notin state.dirs THEN <<"ENOENT">>
    ELSE IF Head(rest) = ".."
         THEN Walk(state, IF at = <<>> THEN <<>> ELSE SubSeq(at, 1, Len(at) - 1),
                   Tail(rest))
         ELSE Walk(state, Append(at, Head(rest)), Tail(rest))

Exists(state, path) ==
    LET at == Walk(state, <<>>, path.parts)
    IN at \in state.dirs \/ at \in DOMAIN state.files

\* Path.is_dir
IsDir(state, path) == Walk(state, <<>>, path.parts) \in state.dirs

\* Path.is_file
IsFile(state, path) == Walk(state, <<>>, path.parts) \in DOMAIN state.files

(***************************************************************************)
(* ResourceHandler.                                                        *)
(***************************************************************************)
\* ResourceHandler.__init__: BadHandler stands for the ValueError raised for
\* an absolute path
BadHandler == [content |-> [t |-> "none", v |-> <<>>], path |-> NotAbsolute, raised |-> "ValueError"]

\* a constructor that takes any path
ResourceHandlerAcceptsAbsolute(content, path) ==
    [content |-> content, path |-> path, raised |-> "none"]

ResourceHandler(content, path) ==
    IF path.abs THEN BadHandler
    ELSE [content |-> content, path |-> path, raised |-> "none"]

\* every prefix of some segments, the segments themselves included
Prefixes(parts) == {SubSeq(parts, 1, n) : n \in 0..Len(parts)}

\* The exceptions ResourceHandler.save can raise, {"none"} when it returns.
\* Path.resolve() raises on a missing root where it is strict (Python 3.4
\* and 3.5) and does not where it is not (3.6): is_dir then fails.
SaveRaises(state, self, root_path) ==
    LET resource_path == normalize_path(Join(root_path, self.path))
    IN IF ~Exists(state, root_path)
       THEN {"FileNotFoundError", "NotADirectoryError"}
       ELSE IF ~IsDir(state, root_path) THEN {"NotADirectoryError"}
       ELSE IF resource_path = NotAbsolute THEN {"ValueError"}
       ELSE IF root_path \notin Parents(resource_path) THEN {"PackageException"}
       ELSE IF \E d \in Prefixes(resource_path.parts) \ {resource_path.parts} :
                  d \in DOMAIN state.files
            THEN {"NotADirectoryError"}
       ELSE IF resource_path.parts \in state.dirs THEN {"IsADirectoryError"}
       ELSE {"none"}

\* a save that leaves a file that is already there as it is
SaveWritesKeepsExisting(state, self, root_path) ==
    LET resource_path == normalize_path(Join(root_path, self.path))
        target == resource_path.parts
    IN [dirs |-> state.dirs \cup (Prefixes(target) \ {target}),
        files |-> [f \in DOMAIN state.files \cup {target} |->
                     IF f \in DOMAIN state.files THEN state.files[f] ELSE self.content]]

\* the file system after a save that returns: mkdir(parents=True) of the
\* parent directory, then the content written over whatever the file held
SaveWrites(state, self, root_path) ==
    LET resource_path == normalize_path(Join(root_path, self.path))
        target == resource_path.parts
    IN [dirs |-> state.dirs \cup (Prefixes(target) \ {target}),
        files |-> [f \in DOMAIN state.files \cup {target} |->
                     IF f = target THEN self.content ELSE state.files[f]]]

(***************************************************************************)
(* Archives.  A member is a name and the bytes stored under it; a name is  *)
(* the string of a path, its segments joined by "/".                       *)
(***************************************************************************)
\* str() of a pathlib.Path
RECURSIVE JoinSegments(_)
JoinSegments(parts) ==
    IF Len(parts) = 0 THEN <<>>
    ELSE IF Len(parts) = 1 THEN parts
    ELSE <<Head(parts), "/">> \o JoinSegments(Tail(parts))

PathStr(path) ==
    IF path.abs THEN <<"/">> \o JoinSegments(path.parts)
    ELSE IF path.parts = <<>> THEN <<".">>
    ELSE JoinSegments(path.parts)

\* what a file or an archive member holds: raw bytes, an encoded markdown
\* text or a YAML document
Bytes(b) == [t |-> "bytes", v |-> b]

Member(name, content) == [name |-> name, content |-> content]

\* TarFile.getmember: the last member added under the name
HasMember(archive, name) == \E i \in 1..Len(archive) : archive[i].name = name
GetMember(archive, name) ==
    archive[CHOOSE i \in 1..Len(archive) :
                /\ archive[i].name = name
                /\ \A j \in (i + 1)..Len(archive) : archive[j].name # name]

\* the name extract_package_resources looks a resource up under
ResourceName(path) == PathStr(Join(Path(FALSE, <<"resources">>), path))

(***************************************************************************)
(* extract_package_resources.  res_content is the file object of the loop: *)
(* unbound before the first assignment, and holding whatever is left to    *)
(* read of the member it was opened on.                                    *)
(***************************************************************************)
Unbound == [bound |-> FALSE, left |-> Bytes(<<>>)]
FileObject(content) == [bound |-> TRUE, left |-> content]

\* The loop of extract_package_resources, from the state it is in.  After a
\* KeyError the body goes on to read res_content: the name is unbound when no
\* entry was found before, else it is the file object of the last entry
\* found, already read to its end.
RECURSIVE ExtractLoop(_, _, _, _, _)
ExtractLoop(archive, paths, res_content, resources, not_found) ==
    IF paths = <<>>
    THEN [raised |-> IF not_found # <<>> THEN "ResourcesNotFound" ELSE "none",
          resources |-> resources, not_found |-> not_found]
    ELSE LET path == Head(paths)
             name == ResourceName(path)
             found == HasMember(archive, name)
             opened == IF found THEN FileObject(GetMember(archive, name).content)
                       ELSE res_content
             missing == IF found THEN not_found ELSE Append(not_found, PathStr(path))
             handler == ResourceHandler(opened.left, path)
         IN IF ~opened.bound
            THEN [raised |-> "UnboundLocalError", resources |-> resources,
                  not_found |-> missing]
            ELSE IF handler = BadHandler
            THEN [raised |-> "ValueError", resources |-> resources,
                  not_found |-> missing]
            ELSE ExtractLoop(archive, Tail(paths), FileObject(Bytes(<<>>)),
                             Append(resources, handler), missing)

extract_package_resources(archive, resource_paths) ==
    ExtractLoop(archive, resource_paths, Unbound, <<>>, <<>>)

(***************************************************************************)
(* The Package entity.                                                     *)
(***************************************************************************)
NoPackage == [t |-> "nopackage"]
NoCall == [op |-> "none"]
Called(op) == call.op = op

\* Package.__init__
Package(post_title, category_name, markdown_content, summary, post_encoding, post_id, post_slug, published_date, resources) ==
    [post_encoding |-> post_encoding,
     post_id |-> post_id,
     post_title |-> post_title,
     post_slug |-> post_slug,
     category_name |-> category_name,
     published_date |-> published_date,
     summary |-> summary,
     markdown_content |-> markdown_content,
     resources |-> resources,
     html_content |-> None]

\* set_default_values that overwrites a published_date already set
SetDefaultValuesOverwritesDate(self, today) ==
    [self EXCEPT !.post_slug = IF self.post_slug = None
                               THEN StrV(slugify(self.post_title.v))
                               ELSE self.post_slug,
                 !.published_date = today]

\* Package.set_default_values, `today` being what date.today() returns
SetDefaultValuesResult(self, today) ==
    LET slugged == IF self.post_slug = None
                   THEN [self EXCEPT !.post_slug = StrV(slugify(self.post_title.v))]
                   ELSE self
    IN IF slugged.published_date = None
       THEN [slugged EXCEPT !.published_date = today]
       ELSE slugged

\* need_update without the else branch: an environment the Package does not
\* know yet is not seen as a change
NeedUpdateKnownEnvsOnly(self, post_id, post_slug, published_date) ==
    \/ \E env_name \in DOMAIN post_id \cap DOMAIN self.post_id :
          self.post_id[env_name] # post_id[env_name]
    \/ post_slug # self.post_slug
    \/ published_date # self.published_date

\* the need_update flag of Package.update_post_meta
NeedUpdate(self, post_id, post_slug, published_date) ==
    \/ \E env_name \in DOMAIN post_id :
          IF env_name \in DOMAIN self.post_id
          THEN self.post_id[env_name] # post_id[env_name]
          ELSE TRUE
    \/ post_slug # self.post_slug
    \/ published_date # self.published_date

\* an assignment in place of the update: the other environments are lost
DictReplace(old, new) == new

\* dict.update
DictUpdate(old, new) ==
    [k \in DOMAIN old \cup DOMAIN new |-> IF k \in DOMAIN new THEN new[k] ELSE old[k]]

\* the metadata Package.update_post_meta hands to inject_meta
InjectedMeta(self) ==
    [k \in {"id", "slug", "published_date"} |->
        CASE k = "id" -> [t |-> "dict", v |-> self.post_id]
          [] k = "slug" -> self.post_slug
          [] k = "published_date" -> self.published_date]

\* update_post_meta that forgets to store the incoming slug
UpdatePostMetaKeepsSlug(self, post_id, post_slug, published_date) ==
    IF ~NeedUpdate(self, post_id, post_slug, published_date)
    THEN self
    ELSE LET updated == [self EXCEPT !.post_id = DictUpdate(self.post_id, post_id),
                                     !.published_date = published_date]
         IN [updated EXCEPT !.markdown_content =
                 inject_meta(updated.markdown_content, InjectedMeta(updated))]

\* update_post_meta that rewrites the text before it stores the new values
UpdatePostMetaInjectsStale(self, post_id, post_slug, published_date) ==
    IF ~NeedUpdate(self, post_id, post_slug, published_date)
    THEN self
    ELSE [self EXCEPT !.post_id = DictUpdate(self.post_id, post_id),
                      !.post_slug = post_slug,
                      !.published_date = published_date,
                      !.markdown_content =
                          inject_meta(self.markdown_content, InjectedMeta(self))]

\* the Package after Package.update_post_meta
UpdatePostMetaResult(self, post_id, post_slug, published_date) ==
    IF ~NeedUpdate(self, post_id, post_slug, published_date)
    THEN self
    ELSE LET updated == [self EXCEPT !.post_id = DictUpdate(self.post_id, post_id),
                                     !.post_slug = post_slug,
                                     !.published_date = published_date]
         IN [updated EXCEPT !.markdown_content =
                 inject_meta(updated.markdown_content, InjectedMeta(updated))]

(***************************************************************************)
(* Encoded text.  A markdown file holds a text written in some charset;    *)
(* decoding it with another codec fails or garbles the characters outside  *)
(* ASCII.                                                                  *)
(***************************************************************************)
Encoded(text, charset) == [t |-> "text", v |-> [text |-> text, charset |-> charset]]

Utf8 == StrV(<<"utf-8">>)
Latin1 == StrV(<<"iso-8859-1">>)
Codecs == {Utf8, Latin1}

ImageRef(path) == [kind |-> "ref", s |-> "", path |-> path]

IsAscii(text) ==
    \A i \in 1..Len(text.body) : text.body[i].s # "e-acute"

\* the UTF-8 bytes of a character outside ASCII, read as ISO-8859-1
Garbled(text) ==
    [text EXCEPT !.body = [i \in 1..Len(text.body) |->
        IF text.body[i].s = "e-acute"
        THEN [text.body[i] EXCEPT !.s = "A-tilde copyright"]
        ELSE text.body[i]]]

NoText == Text(NoMeta, <<>>, "")

\* bytes.decode(encoding)
Decode(content, encoding) ==
    IF encoding \notin Codecs THEN [raised |-> "LookupError", text |-> NoText]
    ELSE IF encoding = content.v.charset \/ IsAscii(content.v.text)
    THEN [raised |-> "none", text |-> content.v.text]
    ELSE IF encoding = Utf8 THEN [raised |-> "UnicodeDecodeError", text |-> NoText]
    ELSE [raised |-> "none", text |-> Garbled(content.v.text)]

\* Path.open(encoding=encoding).read(): text mode, newline=None, so every
\* line end is translated to "\n"
ReadText(content, encoding) ==
    LET decoded == Decode(content, encoding)
    IN IF decoded.raised # "none" THEN decoded
       ELSE [decoded EXCEPT !.text.eol = "\n"]

(***************************************************************************)
(* The renderer: what markdown_parser.convert leaves on the parser.        *)
(***************************************************************************)
FreshParser == [meta |-> NoMeta, summary |-> None, resource_path |-> <<>>]

RECURSIVE References(_)
References(body) ==
    IF body = <<>> THEN <<>>
    ELSE IF Head(body).kind = "ref" THEN <<Head(body).path>> \o References(Tail(body))
    ELSE References(Tail(body))

\* the [summary] paragraph, else the text of the first paragraph
Summary(body) ==
    LET tagged == SelectSeq(body, LAMBDA item : item.kind = "summary")
        paragraphs == SelectSeq(body, LAMBDA item : item.kind = "text")
    IN IF tagged # <<>> THEN StrV(<<Head(tagged).s>>)
       ELSE IF paragraphs # <<>> THEN StrV(<<Head(paragraphs).s>>)
       ELSE None

\* the meta extension leaves None on the parser for a text without a block
\* and for an empty block (yaml.load of nothing is None)
Convert(text) ==
    [meta |-> IF text.meta = EmptyMeta THEN NoMeta ELSE text.meta, summary |-> Summary(text.body),
     resource_path |-> References(text.body)]

(***************************************************************************)
(* normalize_post_meta: the cerberus schema of the post metadata.          *)
(***************************************************************************)
SchemaFields == {"id", "title", "slug", "category", "published_date"}

\* the schema without the regex rule of slug
PostMetaErrorsNoRegex(m) ==
    {k \in DOMAIN m : k \notin SchemaFields}
    \cup {k \in {"title", "category"} : k \notin DOMAIN m}
    \cup {k \in {"title", "category"} \cap DOMAIN m : m[k].t # "str"}
    \cup {k \in {"slug"} \cap DOMAIN m : m[k] # None /\ m[k].t # "str"}
    \cup {k \in {"id"} \cap DOMAIN m :
            /\ m[k] # None
            /\ \/ m[k].t # "dict"
               \/ \E e \in DOMAIN m[k].v : m[k].v[e].t \notin {"int", "none"}}
    \cup {k \in {"published_date"} \cap DOMAIN m : m[k] # None /\ m[k].t # "date"}

\* the fields cerberus reports an error for
PostMetaErrors(m) ==
    {k \in DOMAIN m : k \notin SchemaFields}
    \cup {k \in {"title", "category"} : k \notin DOMAIN m}
    \cup {k \in {"title", "category"} \cap DOMAIN m : m[k].t # "str"}
    \cup {k \in {"slug"} \cap DOMAIN m :
            /\ m[k] # None
            /\ \/ m[k].t # "str"
               \/ ~MatchesSlugRegex(m[k].v)}
    \cup {k \in {"id"} \cap DOMAIN m :
            /\ m[k] # None
            /\ \/ m[k].t # "dict"
               \/ \E e \in DOMAIN m[k].v : m[k].v[e].t \notin {"int", "none"}}
    \cup {k \in {"published_date"} \cap DOMAIN m : m[k] # None /\ m[k].t # "date"}

\* the defaults of the schema: id {}, slug None, published_date None
DefaultOf(k) == IF k = "id" THEN [t |-> "dict", v |-> EmptyDict] ELSE None

\* a normalization that derives the missing slug from the title
NormalizedDerivesSlug(m) ==
    [k \in DOMAIN m \cup {"id", "slug", "published_date"} |->
        IF k \notin DOMAIN m
        THEN IF k = "slug" THEN StrV(slugify(m["title"].v)) ELSE DefaultOf(k)
        ELSE IF k = "id" /\ m[k] = None THEN DefaultOf(k)
        ELSE m[k]]

\* validator.normalized: the document with the defaults of the fields it
\* lacks
Normalized(m) ==
    [k \in DOMAIN m \cup {"id", "slug", "published_date"} |->
        IF k \notin DOMAIN m THEN DefaultOf(k)
        ELSE IF k = "id" /\ m[k] = None THEN DefaultOf(k)
        ELSE m[k]]

normalize_post_meta(post_meta) ==
    IF post_meta = NoMeta
    THEN [raised |-> "DocumentError", errors |-> {}, meta |-> EmptyDict]
    ELSE IF PostMetaErrors(post_meta.v) # {}
    THEN [raised |-> "PackageValidationError", errors |-> PostMetaErrors(post_meta.v),
          meta |-> EmptyDict]
    ELSE [raised |-> "none", errors |-> {}, meta |-> Normalized(post_meta.v)]

(***************************************************************************)
(* The manifest, package.yml.                                              *)
(***************************************************************************)
Yaml(mapping) == [t |-> "yaml", v |-> mapping]
ManifestName == <<"package.yml">>

\* yaml.dump(dict(post=post_path.name, encoding=encoding))
Manifest(post, encoding) ==
    Yaml([k \in {"post", "encoding"} |-> IF k = "post" THEN StrV(post) ELSE encoding])

\* a validator that lets unknown keys through (allow_unknown)
ManifestErrorsAllowUnknown(m) ==
    {k \in {"post", "encoding"} : k \notin DOMAIN m}
    \cup {k \in {"post", "encoding"} \cap DOMAIN m : m[k].t # "str"}

\* the fields cerberus reports an error for
ManifestErrors(m) ==
    {k \in DOMAIN m : k \notin {"post", "encoding"}}
    \cup {k \in {"post", "encoding"} : k \notin DOMAIN m}
    \cup {k \in {"post", "encoding"} \cap DOMAIN m : m[k].t # "str"}

\* yaml.load(content.decode()): a YAML mapping, nothing (None), the lone
\* quote "'" (39) that is no YAML, bytes that are no UTF-8, and any other
\* ASCII bytes, which are a plain scalar
YamlLoad(content) ==
    IF content.t = "yaml"
    THEN [raised |-> "none", value |-> [t |-> "dict", v |-> content.v]]
    ELSE IF content.t = "text" THEN [raised |-> "YAMLError", value |-> None]
    ELSE IF content.v = <<>> THEN [raised |-> "none", value |-> None]
    ELSE IF \E i \in 1..Len(content.v) : content.v[i] > 127
    THEN [raised |-> "UnicodeDecodeError", value |-> None]
    ELSE IF content.v = <<39>> THEN [raised |-> "YAMLError", value |-> None]
    ELSE [raised |-> "none", value |-> [t |-> "str", v |-> content.v]]

extract_package_meta(archive) ==
    IF ~HasMember(archive, ManifestName)
    THEN [raised |-> "PackageException", errors |-> {}, meta |-> EmptyDict]
    ELSE LET loaded == YamlLoad(GetMember(archive, ManifestName).content)
             meta == loaded.value
         IN IF loaded.raised = "YAMLError"
            THEN [raised |-> "PackageException", errors |-> {}, meta |-> EmptyDict]
            ELSE IF loaded.raised # "none"
            THEN [raised |-> loaded.raised, errors |-> {}, meta |-> EmptyDict]
            ELSE IF meta = None
            THEN [raised |-> "PackageException", errors |-> {}, meta |-> EmptyDict]
            ELSE IF meta.t # "dict"
            THEN [raised |-> "DocumentError", errors |-> {}, meta |-> EmptyDict]
            ELSE IF ManifestErrors(meta.v) # {}
            THEN [raised |-> "PackageValidationError",
                  errors |-> ManifestErrors(meta.v), meta |-> EmptyDict]
            ELSE [raised |-> "none", errors |-> {}, meta |-> meta.v]

(***************************************************************************)
(* get_resources and build_package.                                        *)
(***************************************************************************)
\* Path.resolve() where it is strict (Python 3.4 and 3.5): every segment but
\* ".." is looked up (readlink) as it is reached, which fails with ENOENT
\* when it does not exist and with ENOTDIR below a regular file; ".." drops
\* the last segment reached
RECURSIVE ResolveStrict(_, _, _)
ResolveStrict(state, at, rest) ==
    IF rest = <<>> THEN at
    ELSE IF Head(rest) = ".."
    THEN ResolveStrict(state, IF at = <<>> THEN <<>> ELSE SubSeq(at, 1, Len(at) - 1),
                       Tail(rest))
    ELSE IF at \in DOMAIN state.files THEN <<"ENOTDIR">>
    ELSE IF Append(at, Head(rest)) \notin state.dirs \cup DOMAIN state.files
    THEN <<"ENOENT">>
    ELSE ResolveStrict(state, Append(at, Head(rest)), Tail(rest))

\* Path.resolve(): strict as above; where it is not strict (3.6) it raises
\* nothing and the path is normalized as written
Resolve(state, path, strict) ==
    LET reached == ResolveStrict(state, <<>>, path.parts)
    IN IF ~strict THEN [raised |-> "none", path |-> Path(TRUE, Collapse(<<>>, path.parts))]
       ELSE IF reached = <<"ENOENT">>
       THEN [raised |-> "FileNotFoundError", path |-> NotAbsolute]
       ELSE IF reached = <<"ENOTDIR">>
       THEN [raised |-> "NotADirectoryError", path |-> NotAbsolute]
       ELSE [raised |-> "none", path |-> Path(TRUE, reached)]

\* The loop of get_resources, from the state it is in.  Only the
\* FileNotFoundError of resolve() is caught; a path that is no regular file
\* is recorded as not found and, for want of a continue, as a resource too.
RECURSIVE GetResourcesLoop(_, _, _, _, _, _)
GetResourcesLoop(state, root_path, res_list, strict, not_found, resources) ==
    IF res_list = <<>>
    THEN IF not_found # <<>>
         THEN [raised |-> "ResourcesNotFound", not_found |-> not_found,
               resources |-> <<>>]
         ELSE [raised |-> "none", not_found |-> <<>>, resources |-> resources]
    ELSE LET res_path == Head(res_list)
             resolved == Resolve(state, Join(root_path, res_path), strict)
             is_file == resolved.path.parts \in DOMAIN state.files
         IN IF resolved.raised = "FileNotFoundError"
            THEN GetResourcesLoop(state, root_path, Tail(res_list), strict,
                                  Append(not_found, PathStr(res_path)), resources)
            ELSE IF resolved.raised # "none"
            THEN [raised |-> resolved.raised, not_found |-> not_found,
                  resources |-> <<>>]
            ELSE GetResourcesLoop(state, root_path, Tail(res_list), strict,
                     IF is_file THEN not_found
                     ELSE Append(not_found, PathStr(res_path)),
                     Append(resources, [abs_res_path |-> resolved.path,
                                        res_path |-> res_path]))

get_resources(state, root_path, res_list, strict) ==
    GetResourcesLoop(state, root_path, res_list, strict, <<>>, <<>>)

\* the name TarFile.add stores a resource under: str('resources' / res_path),
\* without the leading "/" an absolute res_path brings
ArcName(res_path) ==
    IF res_path.abs THEN JoinSegments(res_path.parts) ELSE ResourceName(res_path)

\* The loop that writes the resources: members added so far, handlers built
\* so far; it stops at the first ResourceHandler that cannot be built.
RECURSIVE WriteResources(_, _, _, _)
WriteResources(state, resources, members, handlers) ==
    IF resources = <<>>
    THEN [raised |-> "none", members |-> members, handlers |-> handlers]
    ELSE LET abs_res_path == Head(resources).abs_res_path
             res_path == Head(resources).res_path
             content == state.files[abs_res_path.parts]
             added == Append(members, Member(ArcName(res_path), content))
             handler == ResourceHandler(content, res_path)
         IN IF handler = BadHandler
            THEN [raised |-> "ValueError", members |-> added, handlers |-> handlers]
            ELSE WriteResources(state, Tail(resources), added, Append(handlers, handler))

\* a failure met after the destination was opened for writing, and emptied
NoResultTruncates(raised, errors, archive, parser) ==
    [raised |-> raised, errors |-> errors, tar |-> <<>>, parser |-> parser,
     package |-> NoPackage]

\* what a call that raises leaves: the archive as it is, no Package
NoResult(raised, errors, archive, parser) ==
    [raised |-> raised, errors |-> errors, tar |-> archive, parser |-> parser,
     package |-> NoPackage]

\* build_package(post_path, package_path, encoding): the exception raised,
\* what the parser holds, the archive at package_path and the Package
build_package(state, archive, parser, post_path, encoding, strict) ==
    LET read == ReadText(state.files[post_path.parts], encoding)
        markdown_content == read.text
        converted == Convert(markdown_content)
        post_meta == normalize_post_meta(converted.meta)
        name == <<post_path.parts[Len(post_path.parts)]>>
        parent == Path(post_path.abs, SubSeq(post_path.parts, 1, Len(post_path.parts) - 1))
        resources == get_resources(state, parent, converted.resource_path, strict)
        written == WriteResources(state, resources.resources,
                       <<Member(ManifestName, Manifest(name, encoding)),
                         Member(name, state.files[post_path.parts])>>,
                       <<>>)
    IN IF read.raised # "none" THEN NoResult(read.raised, {}, archive, parser)
       ELSE IF post_meta.raised # "none"
       THEN NoResult(post_meta.raised, post_meta.errors, archive, converted)
       ELSE IF resources.raised # "none"
       THEN NoResult(resources.raised, resources.not_found, archive, converted)
       ELSE IF written.raised # "none"
       THEN NoResult(written.raised, {}, written.members, converted)
       ELSE [raised |-> "none", errors |-> {}, tar |-> written.members,
             parser |-> converted,
             package |-> Package(post_meta.meta["title"], post_meta.meta["category"],
                                 markdown_content, converted.summary, encoding,
                                 post_meta.meta["id"].v, post_meta.meta["slug"],
                                 post_meta.meta["published_date"], written.handlers)]

(***************************************************************************)
(* read_package.                                                           *)
(***************************************************************************)
read_package(archive, parser) ==
    LET package_meta == extract_package_meta(archive)
        post_member == package_meta.meta["post"].v
        post_encoding == package_meta.meta["encoding"]
        decoded == Decode(GetMember(archive, post_member).content, post_encoding)
        post_md_content == decoded.text
        converted == Convert(post_md_content)
        post_meta == normalize_post_meta(converted.meta)
        resources == extract_package_resources(archive, converted.resource_path)
    IN IF package_meta.raised # "none"
       THEN NoResult(package_meta.raised, package_meta.errors, archive, parser)
       ELSE IF ~HasMember(archive, post_member)
       THEN NoResult("KeyError", {}, archive, parser)
       ELSE IF decoded.raised # "none" THEN NoResult(decoded.raised, {}, archive, parser)
       ELSE IF post_meta.raised # "none"
       THEN NoResult(post_meta.raised, post_meta.errors, archive, converted)
       ELSE IF resources.raised # "none"
       THEN NoResult(resources.raised, resources.not_found, archive, converted)
       ELSE [raised |-> "none", errors |-> {}, tar |-> archive, parser |-> converted,
             package |-> Package(post_meta.meta["title"], post_meta.meta["category"],
                                 post_md_content, converted.summary, post_encoding,
                                 post_meta.meta["id"].v, post_meta.meta["slug"],
                                 post_meta.meta["published_date"], resources.resources)]

(***************************************************************************)
(* The HTML of a Package.                                                  *)
(***************************************************************************)
\* parser.convert(text): the HTML of the body, a string even when the body
\* is empty; the meta extension takes the front matter out and the summary
\* extension the [summary] paragraph
Html(text) ==
    [t |-> "html", v |-> SelectSeq(text.body, LAMBDA item : item.kind # "summary")]

\* Package.build_html_content
build_html_content(self) == [self EXCEPT !.html_content = Html(self.markdown_content)]

\* a property that hands out whatever the attribute holds
html_contentUnchecked(self) == [raised |-> "none", ret |-> self.html_content]

\* the property Package.html_content: the exception raised and the value
\* returned
html_content(self) ==
    IF self.html_content = None THEN [raised |-> "PackageException", ret |-> None]
    ELSE [raised |-> "none", ret |-> self.html_content]

(***************************************************************************)
(* parse_markdown (src/pblog/markdown.py): the post definition of a        *)
(* markdown file, made with a parser of its own.                           *)
(***************************************************************************)
\* the schema of markdown.py names the date `date`, where the schema of
\* package.py names it `published_date`
SwapDateKey(k) ==
    IF k = "date" THEN "published_date" ELSE IF k = "published_date" THEN "date" ELSE k

\* the fields the validator of markdown.py reports an error for
PostErrors(m) ==
    LET renamed == [k \in {SwapDateKey(j) : j \in DOMAIN m} |-> m[SwapDateKey(k)]]
    IN {SwapDateKey(k) : k \in PostMetaErrors(renamed)}

NoPost(raised, errors) == [raised |-> raised, errors |-> errors, post |-> None]

\* parse_markdown(md_file, encoding), `today` being what date.today() returns
parse_markdown(content, encoding, today) ==
    LET decoded == Decode(content, encoding)
        md_content == decoded.text
        md == Convert(md_content)
        given == [k \in DOMAIN md.meta.v \cup {"id", "slug", "date"} |->
                    IF k \notin DOMAIN md.meta.v THEN DefaultOf(k)
                    ELSE IF k = "id" /\ md.meta.v[k] = None THEN DefaultOf(k)
                    ELSE md.meta.v[k]]
        meta == [given EXCEPT
                    !["slug"] = IF @ = None THEN StrV(slugify(given["title"].v)) ELSE @,
                    !["date"] = IF @ = None THEN today ELSE @]
    IN IF decoded.raised \in {"UnicodeDecodeError", "LookupError"}
       THEN NoPost("PostError", {"encoding"})
       ELSE IF md.meta = NoMeta THEN NoPost("PostError", {""})
       ELSE IF PostErrors(md.meta.v) # {}
       THEN NoPost("PostError", PostErrors(md.meta.v))
       ELSE [raised |-> "none", errors |-> {},
             post |-> [id |-> meta["id"], title |-> meta["title"], slug |-> meta["slug"],
                       summary |-> IF md.summary = None THEN StrV(<<>>) ELSE md.summary,
                       date |-> meta["date"], category |-> meta["category"],
                       markdown |-> md_content, html |-> Html(md_content)]]

(***************************************************************************)
(* Operations on the Package.                                              *)
(***************************************************************************)
SetDefaultValues ==
    /\ pkg # NoPackage
    /\ \E today \in Dates :
          /\ pkg' = SetDefaultValuesResult(pkg, today)
          /\ call' = [op |-> "set_default_values", today |-> today,
                      changed |-> SetDefaultValuesResult(pkg, today) # pkg]
    /\ repeated' = IF call.op # "set_default_values" THEN "no"
                   ELSE IF call.changed THEN "changed" ELSE "unchanged"
    /\ UNCHANGED <<fs, codecVars, serverVars>>

UpdateArgs ==
    [post_id : {d \in PostIds : Cardinality(DOMAIN d) <= 1},
     post_slug : {None, StrV(<<"b">>), StrV(<<"a", " ", "b">>)},
     published_date : Dates \cup {None}]

UpdatePostMeta(Args) ==
    /\ pkg # NoPackage
    /\ \E args \in Args :
          /\ pkg' = UpdatePostMetaResult(pkg, args.post_id, args.post_slug,
                                         args.published_date)
          /\ call' = [op |-> "update_post_meta", args |-> args,
                      ret |-> NeedUpdate(pkg, args.post_id, args.post_slug,
                                         args.published_date)]
          /\ repeated' = IF call.op # "update_post_meta" THEN "no"
                         ELSE IF call.args # args THEN "no"
                         ELSE IF call.ret THEN "changed" ELSE "unchanged"
    /\ UNCHANGED <<fs, codecVars, serverVars>>

(***************************************************************************)
(* The Package entity on its own: any Package a caller may construct, then *)
(* any sequence of set_default_values and update_post_meta calls.          *)
(***************************************************************************)
Titles == {<<"A", " ", "b">>, <<"!">>}
Texts ==
    {Text(NoMeta, <<TextLine("World")>>, "\n"),
     Text(MetaV([k \in {"title", "category", "slug"} |-> StrV(<<"b">>)]),
          <<>>, "\r\n")}

InitPackage ==
    /\ \E post_title \in Titles, markdown_content \in Texts,
          post_id \in PostIds, post_slug \in {None, StrV(<<"b">>)},
          published_date \in Dates \cup {None} :
          pkg = Package(StrV(post_title), StrV(<<"b">>), markdown_content,
                        None, StrV(<<"utf-8">>), post_id, post_slug,
                        published_date, <<>>)
    /\ call = NoCall
    /\ repeated = "no"
    /\ fs = EmptyFs
    /\ tar = <<>>
    /\ built = NoPackage
    /\ markdown_parser = FreshParser
    /\ ServerIdle

NextPackage == SetDefaultValues \/ UpdatePostMeta(UpdateArgs)

SpecPackage == InitPackage /\ [][NextPackage]_vars

(***************************************************************************)
(* Properties of update_post_meta and set_default_values.                  *)
(***************************************************************************)
\* merging the incoming values would change the state of the Package
IncomingDiffers(self, args) ==
    \/ DictUpdate(self.post_id, args.post_id) # self.post_id
    \/ args.post_slug # self.post_slug
    \/ args.published_date # self.published_date

\* C3: a second update_post_meta call with the same arguments, right after a
\* first one, returns false and changes nothing; a call returns true
\* whenever at least one incoming value differs from the Package's state.
C3_SecondUpdateReturnsFalse ==
    [][call'.op = "update_post_meta" =>
          /\ repeated' # "no" => (call'.ret = FALSE /\ pkg' = pkg)
          /\ IncomingDiffers(pkg, call'.args) => call'.ret = TRUE]_vars

\* a first call returned true and the same call was made again
C3_Witness ==
    Called("update_post_meta") /\ repeated = "changed" /\ call.ret = FALSE

\* every incoming value is already the Package's
AllMatch(self, args) ==
    /\ \A env_name \in DOMAIN args.post_id :
          /\ env_name \in DOMAIN self.post_id
          /\ self.post_id[env_name] = args.post_id[env_name]
    /\ args.post_slug = self.post_slug
    /\ args.published_date = self.published_date

\* C4: update_post_meta returns false exactly when every incoming post_id
\* entry is already present with an equal value and the incoming slug and
\* date equal the current ones; post_id, post_slug, published_date and
\* markdown_content are then left unchanged.
C4_FalseExactlyWhenAllMatch ==
    [][call'.op = "update_post_meta" =>
          /\ call'.ret = FALSE <=> AllMatch(pkg, call'.args)
          /\ call'.ret = FALSE =>
                /\ pkg'.post_id = pkg.post_id
                /\ pkg'.post_slug = pkg.post_slug
                /\ pkg'.published_date = pkg.published_date
                /\ pkg'.markdown_content = pkg.markdown_content]_vars

\* a call that names an environment and returned false
C4_Witness ==
    /\ Called("update_post_meta")
    /\ call.ret = FALSE
    /\ call.args.post_id # EmptyDict
    /\ repeated = "no"

\* C5: when update_post_meta returns true, post_id is the previous post_id
\* overridden key by key with the incoming entries (the other environments
\* keep their value), post_slug is the incoming slug and published_date the
\* incoming date.
C5_TrueMergesAndOverwrites ==
    [][(call'.op = "update_post_meta" /\ call'.ret = TRUE) =>
          /\ DOMAIN pkg'.post_id = DOMAIN pkg.post_id \cup DOMAIN call'.args.post_id
          /\ \A env_name \in DOMAIN pkg'.post_id :
                pkg'.post_id[env_name] =
                    IF env_name \in DOMAIN call'.args.post_id
                    THEN call'.args.post_id[env_name]
                    ELSE pkg.post_id[env_name]
          /\ pkg'.post_slug = call'.args.post_slug
          /\ pkg'.published_date = call'.args.published_date]_vars

\* a call returned true, one environment was overridden and another kept
C5_Witness ==
    /\ Called("update_post_meta")
    /\ call.ret = TRUE
    /\ call.args.post_id # EmptyDict
    /\ DOMAIN pkg.post_id # DOMAIN call.args.post_id
    /\ \E env_name \in DOMAIN pkg.post_id \ DOMAIN call.args.post_id :
          pkg.post_id[env_name] # None

\* the front matter read back from a markdown text
FrontMatter(text) == IF text.meta \in {NoMeta, EmptyMeta} THEN EmptyDict ELSE text.meta.v

\* C6: after update_post_meta returns true, the front matter of the
\* rewritten markdown_content holds id, slug and published_date equal to the
\* Package's post_id, post_slug and published_date, every other
\* front-matter field keeps its value and the body is unchanged.
C6_RewrittenFrontMatter ==
    [][(call'.op = "update_post_meta" /\ call'.ret = TRUE) =>
          LET before == FrontMatter(pkg.markdown_content)
              after == FrontMatter(pkg'.markdown_content)
          IN /\ {"id", "slug", "published_date"} \subseteq DOMAIN after
             /\ after["id"] = [t |-> "dict", v |-> pkg'.post_id]
             /\ after["slug"] = pkg'.post_slug
             /\ after["published_date"] = pkg'.published_date
             /\ \A k \in DOMAIN before \ {"id", "slug", "published_date"} :
                   k \in DOMAIN after /\ after[k] = before[k]
             /\ DOMAIN after \subseteq DOMAIN before \cup {"id", "slug", "published_date"}
             /\ pkg'.markdown_content.body = pkg.markdown_content.body]_vars

\* a call returned true on a text that has a title and a category, and the
\* Package holds an id that the call did not name
C6_Witness ==
    /\ Called("update_post_meta")
    /\ call.ret = TRUE
    /\ {"title", "category", "id"} \subseteq DOMAIN FrontMatter(pkg.markdown_content)
    /\ DOMAIN pkg.post_id # DOMAIN call.args.post_id

\* C7: set_default_values changes post_slug only when it is absent (to the
\* slug of post_title) and published_date only when it is absent (to the
\* current date); no other field changes and a second call changes nothing.
C7_DefaultsOnlyWhenAbsent ==
    [][call'.op = "set_default_values" =>
          /\ pkg'.post_slug = IF pkg.post_slug = None
                              THEN StrV(slugify(pkg.post_title.v))
                              ELSE pkg.post_slug
          /\ pkg'.published_date = IF pkg.published_date = None
                                   THEN call'.today
                                   ELSE pkg.published_date
          /\ pkg' = [pkg EXCEPT !.post_slug = pkg'.post_slug,
                                !.published_date = pkg'.published_date]
          /\ repeated' # "no" => pkg' = pkg]_vars

\* a first call filled a field and a second call followed
C7_Witness == Called("set_default_values") /\ repeated = "changed"

(***************************************************************************)
(* Saving resources: a directory /r that holds the directory ham and the   *)
(* file foo, and any sequence of ResourceHandler.save calls, up to the      *)
(* first that raises.                                                      *)
(***************************************************************************)
Segments == {"ham", "foo", ".."}

RECURSIVE SeqsUpTo(_, _)
SeqsUpTo(S, n) ==
    IF n = 0 THEN {<<>>}
    ELSE LET shorter == SeqsUpTo(S, n - 1)
         IN shorter \cup {Append(q, x) : q \in shorter, x \in S}

ResourcePaths == {Path(FALSE, parts) : parts \in SeqsUpTo(Segments, MaxDepth)}

Roots ==
    {Path(TRUE, <<"r">>),                 \* a directory
     Path(TRUE, <<"r", "ham">>),          \* a directory in it
     Path(TRUE, <<"r", "ham", "..">>),    \* /r again, written with a ".."
     Path(FALSE, <<"r">>),                \* /r again, relative to the current directory
     Path(TRUE, <<"r", "foo">>),          \* a file
     Path(TRUE, <<"missing">>)}           \* nothing

Contents == {Bytes(<<137, 80>>), Bytes(<<>>)}

\* nothing was called yet, or the last call returned: an exception is not
\* caught and ends the run
Running == IF call = NoCall THEN TRUE ELSE call.raised = "none"

Save ==
    /\ Running
    /\ \E root_path \in Roots, path \in ResourcePaths, content \in Contents :
          LET self == ResourceHandler(content, path)
          IN \E raised \in SaveRaises(fs, self, root_path) :
                /\ raised = "none" =>
                      Cardinality(DOMAIN SaveWrites(fs, self, root_path).files) <= MaxFiles
                /\ fs' = IF raised = "none" THEN SaveWrites(fs, self, root_path) ELSE fs
                /\ call' = [op |-> "save", root_path |-> root_path, self |-> self,
                            raised |-> raised]
    /\ UNCHANGED <<pkgVars, codecVars, serverVars>>

\* ResourceHandler.save(root_path, subdirectory), as the tests call it: save
\* takes root_path only, so the call raises TypeError before its body runs
SaveInSubdirectory ==
    /\ Running
    /\ \E root_path \in Roots, path \in ResourcePaths, content \in Contents :
          /\ Len(path.parts) = 1
          /\ call' = [op |-> "save in subdirectory", root_path |-> root_path,
                      subdirectory |-> Path(FALSE, <<"res">>),
                      self |-> ResourceHandler(content, path), raised |-> "TypeError"]
    /\ UNCHANGED <<fs, pkgVars, codecVars, serverVars>>

InitSave ==
    /\ fs = [dirs |-> {<<>>, <<"r">>, <<"r", "ham">>},
             files |-> [f \in {<<"r", "foo">>} |-> Bytes(<<137, 80>>)]]
    /\ call = NoCall
    /\ pkg = NoPackage
    /\ repeated = "no"
    /\ tar = <<>>
    /\ built = NoPackage
    /\ markdown_parser = FreshParser
    /\ ServerIdle

NextSave == Save \/ SaveInSubdirectory

SpecSave == InitSave /\ [][NextSave]_vars

\* the absolute, normalized segments a path stands for
Absolute(path) == Collapse(<<>>, path.parts)

\* the resource path, joined to the root and normalized, lies strictly
\* beneath the root
StrictlyBeneath(root_path, path) ==
    LET root == Absolute(root_path)
        target == Absolute(Join(root_path, path))
    IN Len(target) > Len(root) /\ SubSeq(target, 1, Len(root)) = root

\* C1: for an existing root directory and a resource path that, joined to
\* the root and normalized, is not strictly beneath the root, save raises
\* PackageException and creates no file and no directory.
C1_EscapeRaisesPackageException ==
    [][(call'.op = "save" /\ IsDir(fs, call'.root_path)
          /\ ~StrictlyBeneath(call'.root_path, call'.self.path)) =>
       (call'.raised = "PackageException" /\ fs' = fs)]_vars

(***************************************************************************)
(* Extracting resources: any archive of resource entries, and              *)
(* extract_package_resources called with any sequence of referenced paths. *)
(***************************************************************************)
RefPaths ==
    {Path(FALSE, <<"ham.png">>),
     Path(FALSE, <<"spam", "egg.png">>),
     Path(FALSE, <<"spam.png">>),
     Path(TRUE, <<"etc", "passwd">>)}

RefLists == SeqsUpTo(RefPaths, MaxRefs)

\* the archives that hold some of the referenced resources
ResourceArchives ==
    {<<>>,
     <<Member(ResourceName(Path(FALSE, <<"ham.png">>)), Bytes(<<137, 80>>))>>,
     <<Member(ResourceName(Path(FALSE, <<"spam", "egg.png">>)), Bytes(<<71>>))>>,
     <<Member(ResourceName(Path(FALSE, <<"ham.png">>)), Bytes(<<137, 80>>)),
       Member(ResourceName(Path(FALSE, <<"spam", "egg.png">>)), Bytes(<<71>>))>>,
     <<Member(<<"etc", "/", "passwd">>, Bytes(<<>>)),
       Member(ResourceName(Path(FALSE, <<"spam.png">>)), Bytes(<<137, 80>>))>>}

ExtractPackageResources ==
    /\ call = NoCall
    /\ \E resource_paths \in RefLists :
          call' = [op |-> "extract_package_resources",
                   resource_paths |-> resource_paths,
                   result |-> extract_package_resources(tar, resource_paths)]
    /\ UNCHANGED <<pkgVars, fs, codecVars, serverVars>>

InitExtract ==
    /\ tar \in ResourceArchives
    /\ call = NoCall
    /\ pkg = NoPackage
    /\ repeated = "no"
    /\ fs = EmptyFs
    /\ built = NoPackage
    /\ markdown_parser = FreshParser
    /\ ServerIdle

NextExtract == ExtractPackageResources

SpecExtract == InitExtract /\ [][NextExtract]_vars

\* the referenced paths that have no resources/<path> entry, in reference order
RECURSIVE MissingEntries(_, _)
MissingEntries(archive, paths) ==
    IF paths = <<>> THEN <<>>
    ELSE IF \E i \in 1..Len(archive) : archive[i].name = ResourceName(Head(paths))
         THEN MissingEntries(archive, Tail(paths))
         ELSE <<PathStr(Head(paths))>> \o MissingEntries(archive, Tail(paths))

\* C2: when at least one resources/<path> entry is missing,
\* extract_package_resources raises ResourcesNotFound whose resources list is
\* exactly the missing paths in reference order, wherever they stand in the
\* sequence, the first and the only reference included (stated here for
\* relative referenced paths, the ones a ResourceHandler accepts).
C2_MissingRaiseResourcesNotFound ==
    LET relative == \A i \in 1..Len(call.resource_paths) : ~call.resource_paths[i].abs
        missing == MissingEntries(tar, call.resource_paths)
    IN (Called("extract_package_resources") /\ relative /\ missing # <<>>) =>
          (call.result.raised = "ResourcesNotFound" /\ call.result.not_found = missing)

(***************************************************************************)
(* The codec: a post /blog/post.md with its resources beside it, built     *)
(* into the archive and read back, and the Package worked on afterwards.   *)
(***************************************************************************)
PostPath == Path(TRUE, <<"blog", "post.md">>)
ImgPath == Path(FALSE, <<"img.png">>)
HamPath == Path(FALSE, <<"imgs", "ham.png">>)

Meta(title, category) ==
    MetaV([k \in {"title", "category"} |-> IF k = "title" THEN title ELSE category])

SourceMetas ==
    {NoMeta,
     EmptyMeta,
     MetaV([k \in {"category", "slug"} |->
              IF k = "slug" THEN StrV(<<"a", " ", "b">>) ELSE IntV(1)]),
     Meta(StrV(<<"A", " ", "b">>), StrV(<<"b">>)),
     Meta(StrV(<<"!">>), StrV(<<"b">>)),
     Meta(StrV(<<>>), StrV(<<>>)),
     Meta(None, StrV(<<"b">>)),
     MetaV([k \in {"title"} |-> StrV(<<"b">>)]),
     MetaV([k \in {"title", "category", "slug"} |->
              IF k = "slug" THEN StrV(<<"a", " ", "b">>) ELSE StrV(<<"b">>)]),
     MetaV([k \in {"title", "category", "slug", "id", "published_date"} |->
              CASE k = "id" -> [t |-> "dict", v |-> [e \in {"dev"} |-> IntV(1)]]
                [] k = "published_date" -> DateV(1)
                [] OTHER -> StrV(<<"b">>)])}

SourceBodies ==
    {<<TextLine("World")>>,
     <<[kind |-> "summary", s |-> "Sum", path |-> <<>>], TextLine("e-acute"),
       ImageRef(ImgPath)>>,
     <<ImageRef(Path(FALSE, <<"missing.png">>)), ImageRef(ImgPath)>>,
     <<ImageRef(HamPath), ImageRef(ImgPath), ImageRef(HamPath)>>,
     <<ImageRef(Path(FALSE, <<"imgs">>))>>,
     <<ImageRef(Path(TRUE, <<"blog", "img.png">>))>>}

SourceTexts ==
    {Text(meta, body, eol) :
        meta \in SourceMetas, body \in SourceBodies, eol \in {"\n", "\r\n"}}

Encodings == Codecs \cup {StrV(<<"klingon">>)}

\* manifests that extract_package_meta must not accept: empty, no YAML, a
\* scalar, one with neither key, one with a key missing, one with a key too
\* many, one whose post is no string, one whose encoding is null
BadManifests ==
    {Bytes(<<>>),
     Bytes(<<39>>),
     Bytes(<<71>>),
     Yaml([k \in {"foo"} |-> StrV(<<"bar">>)]),
     Yaml([k \in {"post"} |-> StrV(<<"post.md">>)]),
     Yaml([k \in {"post", "encoding", "foo"} |->
             IF k = "post" THEN StrV(<<"post.md">>) ELSE Utf8]),
     Yaml([k \in {"post", "encoding"} |-> IF k = "post" THEN IntV(1) ELSE Utf8]),
     Yaml([k \in {"post", "encoding"} |->
             IF k = "post" THEN StrV(<<"post.md">>) ELSE None])}

PostMember(meta) ==
    Member(<<"post.md">>, Encoded(Text(meta, <<TextLine("World")>>, "\n"), Utf8))

\* archives made by hand: one whose resources are there, one whose first
\* referenced resource is not, one without a manifest, one for each bad
\* manifest, and two whose post has no metadata
HandmadeArchives ==
    {<<PostMember(Meta(StrV(<<"b">>), StrV(<<"b">>)))>>}
    \cup {<<Member(ManifestName, manifest),
            PostMember(Meta(StrV(<<"b">>), StrV(<<"b">>)))>> : manifest \in BadManifests}
    \cup {<<Member(ManifestName, Manifest(<<"post.md">>, Utf8)), PostMember(meta)>> :
             meta \in {NoMeta, EmptyMeta}}
    \cup
    {<<Member(ManifestName, Manifest(<<"post.md">>, Latin1)),
       Member(<<"post.md">>,
              Encoded(Text(Meta(StrV(<<"A", " ", "b">>), StrV(<<"b">>)),
                           <<TextLine("e-acute"), ImageRef(ImgPath)>>, "\n"), Latin1)),
       Member(ResourceName(ImgPath), Bytes(<<137, 80>>))>>,
     <<Member(ManifestName, Manifest(<<"post.md">>, Utf8)),
       Member(<<"post.md">>,
              Encoded(Text(Meta(StrV(<<"b">>), StrV(<<"b">>)),
                           <<ImageRef(ImgPath), ImageRef(HamPath)>>, "\n"), Utf8)),
       Member(ResourceName(HamPath), Bytes(<<71>>))>>}

BuildPackage ==
    /\ \E encoding \in Encodings, strict \in BOOLEAN :
          \E result \in {build_package(fs, tar, markdown_parser, PostPath, encoding, strict)} :
             /\ tar' = result.tar
             /\ markdown_parser' = result.parser
             /\ pkg' = IF result.raised = "none" THEN result.package ELSE pkg
             /\ built' = IF result.tar = tar /\ result.raised # "none" THEN built
                         ELSE result.package
             /\ call' = [op |-> "build_package", encoding |-> encoding,
                         raised |-> result.raised, errors |-> result.errors]
    /\ repeated' = "no"
    /\ UNCHANGED <<fs, serverVars>>

ReadPackage ==
    /\ tar # <<>>
    /\ \E result \in {read_package(tar, markdown_parser)} :
          /\ markdown_parser' = result.parser
          /\ pkg' = IF result.raised = "none" THEN result.package ELSE pkg
          /\ call' = [op |-> "read_package", raised |-> result.raised,
                      errors |-> result.errors]
    /\ repeated' = "no"
    /\ UNCHANGED <<fs, tar, built, serverVars>>

\* the directory /blog: the post, an image beside it and one in imgs/
BlogFs(post) ==
    [dirs |-> {<<>>, <<"blog">>, <<"blog", "imgs">>},
     files |-> [f \in {PostPath.parts, <<"blog", "img.png">>,
                       <<"blog", "imgs", "ham.png">>} |->
                  IF f = PostPath.parts THEN post
                  ELSE IF f = <<"blog", "img.png">> THEN Bytes(<<137, 80>>)
                  ELSE Bytes(<<71>>)]]

ExtractPackageMeta ==
    /\ tar # <<>>
    /\ \E result \in {extract_package_meta(tar)} :
          call' = [op |-> "extract_package_meta", raised |-> result.raised,
                   errors |-> result.errors, meta |-> result.meta]
    /\ repeated' = "no"
    /\ UNCHANGED <<pkg, fs, tar, built, markdown_parser, serverVars>>

\* either any post and no archive yet, or an archive made by hand beside a
\* plain post
InitCodec ==
    /\ \/ /\ \E text \in SourceTexts, charset \in Codecs :
                fs = BlogFs(Encoded(text, charset))
          /\ tar = <<>>
       \/ /\ fs = BlogFs(Encoded(Text(Meta(StrV(<<"b">>), StrV(<<"b">>)),
                                       <<TextLine("World")>>, "\n"), Utf8))
          /\ tar \in HandmadeArchives
    /\ built = NoPackage
    /\ markdown_parser = FreshParser
    /\ ServerIdle
    /\ pkg = NoPackage
    /\ call = NoCall
    /\ repeated = "no"

\* what the publish command passes to update_post_meta: the identifier the
\* server gave the post in one environment, its slug and its date
RemoteArgs ==
    [post_id : UNION {[{env_name} -> Ids] : env_name \in Envs},
     post_slug : {StrV(<<"b">>), StrV(<<"a", "-", "b">>)},
     published_date : Dates]

NextCodec ==
    \/ BuildPackage
    \/ ReadPackage
    \/ ExtractPackageMeta
    \/ SetDefaultValues
    \/ UpdatePostMeta(RemoteArgs)

SpecCodec == InitCodec /\ [][NextCodec]_vars

\* build_package or read_package has just returned a Package
Returned == (Called("build_package") \/ Called("read_package")) /\ call.raised = "none"

\* C8: the title and the category of every Package returned by read_package
\* or build_package, whose metadata normalize_post_meta accepted, are
\* non-empty strings.
C8_TitleAndCategoryNotEmpty ==
    Returned =>
        /\ pkg.post_title.t = "str" /\ pkg.post_title.v # <<>>
        /\ pkg.category_name.t = "str" /\ pkg.category_name.v # <<>>

\* C9: in every Package state reached from a read_package or build_package
\* result by set_default_values and update_post_meta calls, post_slug is
\* absent or matches ^[A-Za-z0-9_-]+$.
C9_SlugMatchesPattern ==
    pkg # NoPackage =>
        \/ pkg.post_slug = None
        \/ pkg.post_slug.t = "str" /\ MatchesSlugRegex(pkg.post_slug.v)

\* C10: read_package on the archive build_package produced returns a Package
\* with the same post_title, category, markdown_content and resources (same
\* relative paths, same bytes) as the Package build_package returned.
C10_BuildThenReadRoundTrip ==
    (Called("read_package") /\ built # NoPackage) =>
        /\ call.raised = "none"
        /\ pkg.post_title = built.post_title
        /\ pkg.category_name = built.category_name
        /\ pkg.markdown_content = built.markdown_content
        /\ pkg.resources = built.resources

(***************************************************************************)
(* Posts without metadata.                                                 *)
(***************************************************************************)
\* what the build_package just called read from the post file, and what the
\* read_package just called decoded from the archive
BuildSource == ReadText(fs.files[PostPath.parts], call.encoding)

ReadSource ==
    LET package_meta == extract_package_meta(tar)
    IN IF package_meta.raised # "none" THEN [raised |-> "no manifest", text |-> NoText]
       ELSE IF ~HasMember(tar, package_meta.meta["post"].v)
       THEN [raised |-> "KeyError", text |-> NoText]
       ELSE Decode(GetMember(tar, package_meta.meta["post"].v).content,
                   package_meta.meta["encoding"])

\* the text was decoded and has no front matter, or an empty one
HasNoMetadata(source) ==
    source.raised = "none" /\ source.text.meta \in {NoMeta, EmptyMeta}

\* C11: a post whose markdown has no front matter, or an empty one, is
\* rejected by build_package and by read_package with a PackageException
\* that is no PackageValidationError.
C11_NoMetadataRaisesPackageException ==
    /\ (Called("build_package") /\ HasNoMetadata(BuildSource)) =>
          call.raised = "PackageException"
    /\ (Called("read_package") /\ HasNoMetadata(ReadSource)) =>
          call.raised = "PackageException"

(***************************************************************************)
(* The manifest.                                                           *)
(***************************************************************************)
\* the manifest entry of the archive, loaded
LoadedManifest == YamlLoad(GetMember(tar, ManifestName).content)

\* a mapping with exactly the keys post and encoding, both strings
WellFormedManifest(value) ==
    /\ value.t = "dict"
    /\ DOMAIN value.v = {"post", "encoding"}
    /\ \A k \in DOMAIN value.v : value.v[k].t = "str"

\* package.yml is absent, empty or no YAML
ManifestUnreadable ==
    \/ ~HasMember(tar, ManifestName)
    \/ LoadedManifest.raised = "YAMLError"
    \/ LoadedManifest.raised = "none" /\ LoadedManifest.value = None

\* package.yml parses to something that violates the schema
ManifestSchemaInvalid ==
    /\ HasMember(tar, ManifestName)
    /\ LoadedManifest.raised = "none"
    /\ LoadedManifest.value # None
    /\ ~WellFormedManifest(LoadedManifest.value)

\* C12: extract_package_meta raises PackageException when package.yml is
\* absent, empty or no valid YAML, and PackageValidationError when it parses
\* but violates the schema; it returns no metadata in any of these cases.
C12_ManifestFailures ==
    Called("read_package") =>
        /\ ManifestUnreadable => call.raised = "PackageException"
        /\ ManifestSchemaInvalid => call.raised = "PackageValidationError"

\* the keys of a manifest that is a mapping which the schema objects to
OffendingKeys(m) ==
    {k \in {"post", "encoding"} : k \notin DOMAIN m \/ m[k].t # "str"}
    \cup (DOMAIN m \ {"post", "encoding"})

\* C13: extract_package_meta returns only for a manifest that declares
\* exactly the keys post and encoding, both strings; a mapping with a missing
\* key, an extra key or a non-string value is rejected with
\* PackageValidationError naming each offending field; and the manifest
\* build_package writes has exactly these two keys, the encoding being the
\* one the caller passed.
C13_ManifestExactlyPostAndEncoding ==
    /\ (Called("extract_package_meta") /\ call.raised = "none") =>
          /\ WellFormedManifest(LoadedManifest.value)
          /\ call.meta = LoadedManifest.value.v
    /\ (Called("extract_package_meta") /\ ManifestSchemaInvalid
          /\ LoadedManifest.value.t = "dict") =>
          /\ call.raised = "PackageValidationError"
          /\ call.errors = OffendingKeys(LoadedManifest.value.v)
    /\ (Called("build_package") /\ call.raised = "none") =>
          /\ tar[1].name = ManifestName
          /\ \A i \in 2..Len(tar) : tar[i].name # ManifestName
          /\ WellFormedManifest(LoadedManifest.value)
          /\ LoadedManifest.value.v["encoding"] = call.encoding
          /\ LoadedManifest.value.v["post"] = StrV(<<"post.md">>)

\* a manifest with an extra key and both keys missing was rejected
C13_Witness ==
    /\ Called("extract_package_meta")
    /\ call.raised = "PackageValidationError"
    /\ call.errors = {"foo", "post", "encoding"}

(***************************************************************************)
(* Validation of the post metadata.                                        *)
(***************************************************************************)
\* the type the schema wants of a field
TypeOf(k) ==
    CASE k = "id" -> "dict"
      [] k = "published_date" -> "date"
      [] OTHER -> "str"

\* field k of the mapping m is a missing required field, has the wrong type
\* or fails its pattern
Offends(m, k) ==
    \/ k \in {"title", "category"} /\ k \notin DOMAIN m
    \/ /\ k \in DOMAIN m
       /\ m[k] # None
       /\ m[k].t # TypeOf(k)
    \/ /\ k = "slug" /\ k \in DOMAIN m
       /\ m[k].t = "str"
       /\ ~MatchesSlugRegex(m[k].v)

\* C14: for every post metadata mapping with a field that is a missing
\* required field, has the wrong type or fails its pattern,
\* normalize_post_meta (called by build_package) raises
\* PackageValidationError and its errors map has a key for every such field.
C14_ErrorsForEveryInvalidField ==
    (/\ Called("build_package")
     /\ BuildSource.raised = "none"
     /\ markdown_parser.meta.t = "meta"
     /\ \E k \in SchemaFields : Offends(markdown_parser.meta.v, k)) =>
        /\ call.raised = "PackageValidationError"
        /\ \A k \in SchemaFields : Offends(markdown_parser.meta.v, k) => k \in call.errors

\* a mapping with a missing title, a category of the wrong type and a slug
\* that fails the pattern was rejected
C14_Witness ==
    /\ Called("build_package")
    /\ call.raised = "PackageValidationError"
    /\ call.errors = {"title", "category", "slug"}

(***************************************************************************)
(* Resolving references: get_resources called with any list of references  *)
(* beside the post of /blog, under either behaviour of Path.resolve().     *)
(***************************************************************************)
ResolveRefs ==
    {Path(FALSE, <<"img.png">>),                 \* a file
     Path(FALSE, <<"imgs", "ham.png">>),         \* a file in a directory
     Path(FALSE, <<"imgs", "..", "img.png">>),   \* a file, through ".."
     Path(TRUE, <<"blog", "img.png">>),          \* a file, absolute
     Path(FALSE, <<"missing.png">>),             \* nothing
     Path(FALSE, <<"imgs">>),                    \* a directory
     Path(FALSE, <<"gone", "..", "img.png">>),   \* through a directory that is not there
     Path(FALSE, <<"img.png", "x">>)}            \* below a file

ResolveLists == SeqsUpTo(ResolveRefs, MaxRefs)

\* get_resources(post_path.parent, markdown_parser.resource_path)
GetResources ==
    /\ \E res_list \in ResolveLists, strict \in BOOLEAN :
          call' = [op |-> "get_resources", res_list |-> res_list, strict |-> strict,
                   result |-> get_resources(fs, Path(TRUE, <<"blog">>), res_list, strict)]
    /\ UNCHANGED <<pkgVars, fs, codecVars, serverVars>>

InitResolve ==
    /\ fs = BlogFs(Bytes(<<>>))
    /\ call = NoCall
    /\ pkg = NoPackage
    /\ repeated = "no"
    /\ tar = <<>>
    /\ built = NoPackage
    /\ markdown_parser = FreshParser
    /\ ServerIdle

NextResolve == GetResources

SpecResolve == InitResolve /\ [][NextResolve]_vars

\* the references of the list that do not resolve to a regular file beside
\* the post, as strings
RECURSIVE Unresolved(_, _)
Unresolved(res_list, strict) ==
    IF res_list = <<>> THEN <<>>
    ELSE LET resolved == Resolve(fs, Join(Path(TRUE, <<"blog">>), Head(res_list)), strict)
         IN IF resolved.raised = "none" /\ resolved.path.parts \in DOMAIN fs.files
            THEN Unresolved(Tail(res_list), strict)
            ELSE <<PathStr(Head(res_list))>> \o Unresolved(Tail(res_list), strict)

\* C15: get_resources raises ResourcesNotFound carrying, once each and in
\* reference order, every reference that does not resolve to an existing
\* regular file; when all resolve it returns one (absolute source path,
\* original path) pair per reference, in order.
C15_EveryMissingReferenceReported ==
    Called("get_resources") =>
        LET missing == Unresolved(call.res_list, call.strict)
        IN IF missing # <<>>
           THEN /\ call.result.raised = "ResourcesNotFound"
                /\ call.result.not_found = missing
           ELSE /\ call.result.raised = "none"
                /\ Len(call.result.resources) = Len(call.res_list)
                /\ \A i \in 1..Len(call.res_list) :
                      /\ call.result.resources[i].res_path = call.res_list[i]
                      /\ call.result.resources[i].abs_res_path.abs
                      /\ call.result.resources[i].abs_res_path.parts \in DOMAIN fs.files

(***************************************************************************)
(* Saving resources, continued.                                            *)
(***************************************************************************)
\* where save is to write: the root, the subdirectory if any and the
\* relative path, joined and normalized
SaveTarget ==
    IF call.op = "save in subdirectory"
    THEN Absolute(Join(Join(call.root_path, call.subdirectory), call.self.path))
    ELSE Absolute(Join(call.root_path, call.self.path))

\* the root is a directory given by its normalized absolute path, the target
\* lies strictly beneath it, no file stands where a directory is needed and
\* no directory where the file goes
SaveCanSucceed ==
    /\ call.root_path.abs
    /\ call.root_path.parts \in fs.dirs
    /\ Len(SaveTarget) > Len(call.root_path.parts)
    /\ SubSeq(SaveTarget, 1, Len(call.root_path.parts)) = call.root_path.parts
    /\ \A d \in Prefixes(SaveTarget) \ {SaveTarget} : d \notin DOMAIN fs.files
    /\ SaveTarget \notin fs.dirs

\* C16: save(root, subdirectory) writes the content at
\* root/subdirectory/<relative path>, creating the subdirectory when it does
\* not exist; with no subdirectory the target is root/<relative path>.
C16_SaveInSubdirectory ==
    ((Called("save in subdirectory") \/ Called("save")) /\ SaveCanSucceed) =>
        /\ call.raised = "none"
        /\ SaveTarget \in DOMAIN fs.files
        /\ fs.files[SaveTarget] = call.self.content
        /\ \A d \in Prefixes(SaveTarget) \ {SaveTarget} : d \in fs.dirs

\* C17: whenever save(root) returns without error, the file at the
\* normalized path root/<relative path> lies strictly beneath root and holds
\* exactly the handler's content, whatever it held before; the directories
\* on the way to it exist, and no other file or directory has changed.
C17_SaveWritesContent ==
    [][(call'.op = "save" /\ call'.raised = "none") =>
          LET root_path == call'.root_path
              self == call'.self
              target == Absolute(Join(root_path, self.path))
          IN /\ StrictlyBeneath(root_path, self.path)
             /\ target \in DOMAIN fs'.files
             /\ fs'.files[target] = self.content
             /\ \A d \in Prefixes(target) \ {target} : d \in fs'.dirs
             /\ fs.dirs \subseteq fs'.dirs
             /\ DOMAIN fs'.files = DOMAIN fs.files \cup {target}
             /\ \A f \in DOMAIN fs.files \ {target} : fs'.files[f] = fs.files[f]]_vars

\* a save has replaced the content of /r/foo, a file from the start, after
\* another save created the directory /r/ham/ham
C17_Witness ==
    /\ Called("save")
    /\ call.raised = "none"
    /\ SaveTarget = <<"r", "foo">>
    /\ call.self.content = Bytes(<<>>)
    /\ <<"r", "ham", "ham">> \in fs.dirs

(***************************************************************************)
(* Relative resource paths.                                                *)
(***************************************************************************)
\* the markdown just converted references an absolute path
AbsoluteReferenced ==
    \E i \in DOMAIN markdown_parser.resource_path : markdown_parser.resource_path[i].abs

\* C18: constructing a ResourceHandler with an absolute path fails with
\* ValueError, so read_package and build_package return no Package for a
\* markdown that references an absolute path, and every ResourceHandler in
\* the resources of a Package they return has a relative path.
C18_ResourcePathsRelative ==
    /\ Returned =>
          \A i \in DOMAIN pkg.resources :
             /\ pkg.resources[i] # BadHandler
             /\ ~pkg.resources[i].path.abs
    /\ ((Called("build_package") \/ Called("read_package")) /\ AbsoluteReferenced) =>
          call.raised # "none"

\* build_package found the file an absolute reference names and failed to
\* construct its handler
C18_Witness ==
    /\ Called("build_package")
    /\ call.raised = "ValueError"
    /\ AbsoluteReferenced

(***************************************************************************)
(* The HTML content: a post built into an archive or read from one, the    *)
(* Package worked on, rendered and its html_content read, in any order.    *)
(***************************************************************************)
\* build_html_content(parser): the parser is the module-level one or one of
\* the caller's own, as in flask_pblog
BuildHtmlContent ==
    /\ pkg # NoPackage
    /\ \E module_parser \in BOOLEAN :
          /\ pkg' = build_html_content(pkg)
          /\ markdown_parser' = IF module_parser THEN Convert(pkg.markdown_content)
                                 ELSE markdown_parser
          /\ call' = [op |-> "build_html_content", module_parser |-> module_parser]
    /\ repeated' = "no"
    /\ UNCHANGED <<fs, tar, built, serverVars>>

\* an access to the html_content property
HtmlContent ==
    /\ pkg # NoPackage
    /\ \E result \in {html_content(pkg)} :
          call' = [op |-> "html_content", raised |-> result.raised, ret |-> result.ret]
    /\ repeated' = "no"
    /\ UNCHANGED <<pkg, fs, codecVars, serverVars>>

HtmlBodies ==
    {<<>>,
     <<[kind |-> "summary", s |-> "Sum", path |-> <<>>], TextLine("e-acute"),
       ImageRef(ImgPath)>>}

InitHtml ==
    /\ \E body \in HtmlBodies :
          fs = BlogFs(Encoded(Text(Meta(StrV(<<"A", " ", "b">>), StrV(<<"b">>)), body, "\n"),
                              Utf8))
    /\ tar \in {<<>>,
                <<Member(ManifestName, Manifest(<<"post.md">>, Utf8)),
                  PostMember(Meta(StrV(<<"b">>), StrV(<<"b">>)))>>}
    /\ built = NoPackage
    /\ markdown_parser = FreshParser
    /\ ServerIdle
    /\ pkg = NoPackage
    /\ call = NoCall
    /\ repeated = "no"

\* what the publish command passes to update_post_meta after the development
\* server stored the post
DevArgs == {args \in RemoteArgs : DOMAIN args.post_id = {"dev"} /\ args.post_slug = StrV(<<"b">>)}

NextHtml ==
    \/ BuildPackage
    \/ ReadPackage
    \/ SetDefaultValues
    \/ UpdatePostMeta(DevArgs)
    \/ BuildHtmlContent
    \/ HtmlContent

SpecHtml == InitHtml /\ [][NextHtml]_vars

\* C19: a Package returned by build_package or read_package has no
\* html_content; set_default_values and update_post_meta leave html_content
\* as it is; an access raises PackageException as long as it is unset, so on
\* every access made before build_html_content was called; build_html_content
\* sets it to the rendered markdown_content, which an access then returns.
C19_HtmlContentUnsetUntilBuilt ==
    [][/\ (call'.op \in {"build_package", "read_package"} /\ call'.raised = "none") =>
             pkg'.html_content = None
       /\ call'.op \in {"set_default_values", "update_post_meta"} =>
             pkg'.html_content = pkg.html_content
       /\ call'.op = "build_html_content" =>
             /\ pkg'.html_content = Html(pkg.markdown_content)
             /\ pkg'.html_content # None
       /\ call'.op = "html_content" =>
             /\ pkg' = pkg
             /\ pkg.html_content = None =>
                   (call'.raised = "PackageException" /\ call'.ret = None)
             /\ pkg.html_content # None =>
                   (call'.raised = "none" /\ call'.ret = pkg.html_content)]_vars

\* an access raised after set_default_values or update_post_meta gave the
\* Package, returned without one, its published_date
C19_Witness ==
    /\ Called("html_content")
    /\ call.raised = "PackageException"
    /\ pkg.published_date # None

(***************************************************************************)
(* The entries of the archive build_package writes.                        *)
(***************************************************************************)
\* the entry the archive is to hold for a reference of the post in /blog
ResourceEntry(state, res_path) ==
    Member(<<"resources", "/">> \o JoinSegments(res_path.parts),
           state.files[Absolute(Join(Path(TRUE, <<"blog">>), res_path))])

\* the entries after the manifest and the post are those of the first
\* references, in their order
ResourceEntriesInOrder(state, archive, refs) ==
    /\ Len(archive) >= 2
    /\ Len(archive) - 2 <= Len(refs)
    /\ \A i \in 1..(Len(archive) - 2) :
          /\ ~refs[i].abs
          /\ archive[2 + i] = ResourceEntry(state, refs[i])

ParseMarkdown ==
    /\ \E encoding \in Encodings, today \in Dates :
          \E result \in {parse_markdown(fs.files[PostPath.parts], encoding, today)} :
             call' = [op |-> "parse_markdown", encoding |-> encoding,
                      raised |-> result.raised, errors |-> result.errors,
                      post |-> result.post]
    /\ repeated' = "no"
    /\ UNCHANGED <<pkg, fs, codecVars, serverVars>>

\* the posts of the archives: one of plain ASCII, one with a character
\* outside ASCII written in ISO-8859-1
DecodePosts ==
    {Encoded(Text(Meta(StrV(<<"b">>), StrV(<<"b">>)), <<TextLine("World")>>, "\n"), Utf8),
     Encoded(Text(Meta(StrV(<<"b">>), StrV(<<"b">>)), <<TextLine("e-acute")>>, "\n"), Latin1)}

DecodeArchives ==
    {<<Member(ManifestName, Manifest(<<"post.md">>, encoding)), Member(<<"post.md">>, post)>> :
        encoding \in Encodings, post \in DecodePosts}

\* either any post and no archive yet, or one of the archives beside a plain
\* post
InitDecode ==
    /\ \/ /\ \E text \in SourceTexts, charset \in Codecs :
                fs = BlogFs(Encoded(text, charset))
          /\ tar = <<>>
       \/ /\ fs = BlogFs(Encoded(Text(Meta(StrV(<<"b">>), StrV(<<"b">>)),
                                       <<TextLine("World")>>, "\n"), Utf8))
          /\ tar \in DecodeArchives
    /\ built = NoPackage
    /\ markdown_parser = FreshParser
    /\ ServerIdle
    /\ pkg = NoPackage
    /\ call = NoCall
    /\ repeated = "no"

NextDecode == BuildPackage \/ ReadPackage \/ ParseMarkdown

SpecDecode == InitDecode /\ [][NextDecode]_vars

\* the errors of pblog that carry a payload of fields
DedicatedErrors == {"PostError", "PackageValidationError"}

\* the last call could not decode the bytes of the post
DecodeFailed ==
    \/ /\ Called("build_package") \/ Called("parse_markdown")
       /\ BuildSource.raised \in {"UnicodeDecodeError", "LookupError"}
    \/ /\ Called("read_package")
       /\ ReadSource.raised \in {"UnicodeDecodeError", "LookupError"}

\* C21: when the bytes of the post cannot be decoded with the declared
\* encoding, or the encoding is unknown, build_package, read_package and
\* parse_markdown fail with a dedicated error whose payload names the field
\* `encoding` (parse_markdown: a PostError), and produce nothing.
C21_DecodeFailureNamesEncoding ==
    DecodeFailed =>
        /\ call.raised \in DedicatedErrors
        /\ "encoding" \in call.errors
        /\ Called("parse_markdown") => (call.raised = "PostError" /\ call.post = None)

(***************************************************************************)
(* Defaults of the optional fields.                                        *)
(***************************************************************************)
\* the front matter of the post the call just made has worked on
SourceMeta == IF Called("build_package") THEN BuildSource.text.meta ELSE ReadSource.text.meta

\* C22: validation derives no default from the content: when the front
\* matter omits id, slug or published_date, the Package read_package or
\* build_package returns has an empty post_id, post_slug None or
\* published_date None, and otherwise the value the front matter gives.
C22_DefaultsNotDerived ==
    Returned =>
        LET meta == SourceMeta.v
        IN /\ "id" \notin DOMAIN meta => pkg.post_id = EmptyDict
           /\ "slug" \notin DOMAIN meta => pkg.post_slug = None
           /\ "published_date" \notin DOMAIN meta => pkg.published_date = None
           /\ "slug" \in DOMAIN meta => pkg.post_slug = meta["slug"]
           /\ "published_date" \in DOMAIN meta => pkg.published_date = meta["published_date"]

\* a Package was returned for a post that gives a title and a category only
C22_Witness ==
    /\ Returned
    /\ DOMAIN SourceMeta.v = {"title", "category"}
    /\ pkg.post_id = EmptyDict
    /\ pkg.post_title = StrV(<<"A", " ", "b">>)
    /\ pkg.post_slug = None

(***************************************************************************)
(* The preprocessors of the markdown extensions, run on the lines of a     *)
(* text.  A line is a sequence of tokens; " " is a space.                  *)
(***************************************************************************)
Delimiter == <<"---">>

\* yaml.load of the header lines joined: nothing is None, `k: v` lines are
\* a mapping, plain lines a scalar, and a mix of both is no YAML
LoadHeader(meta) ==
    LET filled == SelectSeq(meta, LAMBDA line : line # <<>>)
        keyed == SelectSeq(filled, LAMBDA line : line = <<"k: v">>)
    IN IF filled = <<>> THEN [raised |-> "none", value |-> None]
       ELSE IF keyed = filled
       THEN [raised |-> "none", value |-> MetaV([k \in {"k"} |-> StrV(<<"v">>)])]
       ELSE IF keyed = <<>>
       THEN [raised |-> "none", value |-> StrV(filled)]
       ELSE [raised |-> "YAMLError", value |-> None]

\* The loop of MetaPreprocessor.run from its second line on: every line
\* `---` ends the header and is skipped; a line after the header is kept
\* unless it is empty and nothing was kept yet.
RECURSIVE MetaLoop(_, _, _, _)
MetaLoop(lines, inside_meta, meta, new_lines) ==
    IF lines = <<>> THEN [meta |-> meta, new_lines |-> new_lines]
    ELSE LET line == Head(lines)
         IN IF line = Delimiter THEN MetaLoop(Tail(lines), FALSE, meta, new_lines)
            ELSE IF inside_meta
            THEN MetaLoop(Tail(lines), TRUE, Append(meta, line), new_lines)
            ELSE IF new_lines # <<>> \/ line # <<>>
            THEN MetaLoop(Tail(lines), FALSE, meta, Append(new_lines, line))
            ELSE MetaLoop(Tail(lines), FALSE, meta, new_lines)

\* MetaPreprocessor.run(lines): the exception raised, the lines returned and
\* what markdown.meta is set to
MetaPreprocessorRun(lines) ==
    LET looped == MetaLoop(Tail(lines), TRUE, <<>>, <<>>)
        loaded == LoadHeader(looped.meta)
    IN IF lines = <<>> THEN [raised |-> "IndexError", lines |-> <<>>, meta |-> None]
       ELSE IF Head(lines) # Delimiter
       THEN [raised |-> "none", lines |-> lines, meta |-> None]
       ELSE IF loaded.raised # "none"
       THEN [raised |-> loaded.raised, lines |-> <<>>, meta |-> None]
       ELSE [raised |-> "none", lines |-> looped.new_lines, meta |-> loaded.value]

MetaTexts == SeqsUpTo({Delimiter, <<>>, <<"k: v">>, <<"text">>}, MaxLines)

\* each preprocessor is run once, on any text
MetaRun ==
    /\ call = NoCall
    /\ \E lines \in MetaTexts :
          \E result \in {MetaPreprocessorRun(lines)} :
             call' = [op |-> "MetaPreprocessor.run", lines |-> lines,
                      raised |-> result.raised, ret |-> result.lines,
                      meta |-> result.meta]
    /\ UNCHANGED <<fs, pkgVars, codecVars, serverVars>>

\* str.strip(): the line without the spaces at its ends
RECURSIVE Trim(_)
Trim(line) ==
    IF line = <<>> THEN <<>>
    ELSE IF Head(line) = " " THEN Trim(Tail(line))
    ELSE IF line[Len(line)] = " " THEN Trim(SubSeq(line, 1, Len(line) - 1))
    ELSE line

SummaryTag == <<"[summary]">>

\* '\r'.join(lines)
RECURSIVE JoinLines(_)
JoinLines(lines) ==
    IF lines = <<>> THEN <<>>
    ELSE IF Len(lines) = 1 THEN Head(lines)
    ELSE Head(lines) \o <<"\r">> \o JoinLines(Tail(lines))

\* The loop of SummaryPreprocessor.run: a tag line opens a summary and is
\* skipped, a blank line closes it and is skipped, every other line goes to
\* the summary when one is open and to the lines returned when none is.
RECURSIVE SummaryLoop(_, _, _, _)
SummaryLoop(lines, inside_summary, new_lines, summary) ==
    IF lines = <<>> THEN [new_lines |-> new_lines, summary |-> summary]
    ELSE LET line == Head(lines)
         IN IF Trim(line) = SummaryTag
            THEN SummaryLoop(Tail(lines), TRUE, new_lines, summary)
            ELSE IF inside_summary /\ Trim(line) = <<>>
            THEN SummaryLoop(Tail(lines), FALSE, new_lines, summary)
            ELSE IF inside_summary
            THEN SummaryLoop(Tail(lines), TRUE, new_lines, Append(summary, line))
            ELSE SummaryLoop(Tail(lines), FALSE, Append(new_lines, line), summary)

\* SummaryPreprocessor.run(lines): the lines returned and what
\* markdown.summary is set to
SummaryPreprocessorRun(lines) ==
    LET looped == SummaryLoop(lines, FALSE, <<>>, <<>>)
    IN [lines |-> looped.new_lines,
        summary |-> IF looped.summary # <<>> THEN StrV(JoinLines(looped.summary))
                    ELSE None]

SummaryTexts ==
    SeqsUpTo({SummaryTag, <<" ", "[summary]", " ">>, <<>>, <<" ">>, <<"a">>, <<"b">>}, MaxLines)

SummaryRun ==
    /\ call = NoCall
    /\ \E lines \in SummaryTexts :
          \E result \in {SummaryPreprocessorRun(lines)} :
             call' = [op |-> "SummaryPreprocessor.run", lines |-> lines,
                      raised |-> "none", ret |-> result.lines,
                      summary |-> result.summary]
    /\ UNCHANGED <<fs, pkgVars, codecVars, serverVars>>

InitPreprocess ==
    /\ call = NoCall
    /\ pkg = NoPackage
    /\ repeated = "no"
    /\ fs = EmptyFs
    /\ tar = <<>>
    /\ built = NoPackage
    /\ markdown_parser = FreshParser
    /\ ServerIdle

NextPreprocess == MetaRun \/ SummaryRun

SpecPreprocess == InitPreprocess /\ [][NextPreprocess]_vars

(***************************************************************************)
(* The body the front-matter preprocessor returns.                         *)
(***************************************************************************)
\* the index of the first closing delimiter, 0 when there is none
ClosingIndex(lines) ==
    IF \E i \in 2..Len(lines) : lines[i] = Delimiter
    THEN CHOOSE i \in 2..Len(lines) :
            lines[i] = Delimiter /\ \A j \in 2..(i - 1) : lines[j] # Delimiter
    ELSE 0

\* the lines after the first closing delimiter, without the one empty line
\* that may follow it at once
BodyAfterHeader(lines) ==
    LET rest == SubSeq(lines, ClosingIndex(lines) + 1, Len(lines))
    IN IF rest # <<>> /\ Head(rest) = <<>> THEN Tail(rest) ELSE rest

\* C23: for every text whose first line is `---`, the body the front-matter
\* preprocessor returns is the lines after the first closing `---`, in
\* order, less one blank line right after that delimiter; further leading
\* blank lines and every later line, a later `---` included, are kept.
C23_BodyAfterFrontMatter ==
    (/\ Called("MetaPreprocessor.run")
     /\ call.lines # <<>>
     /\ Head(call.lines) = Delimiter
     /\ ClosingIndex(call.lines) # 0
     /\ call.raised = "none") =>
        call.ret = BodyAfterHeader(call.lines)

(***************************************************************************)
(* The summary the summary preprocessor takes out of the body.             *)
(***************************************************************************)
IsTag(line) == Trim(line) = SummaryTag
IsBlank(line) == Trim(line) = <<>>

\* the index of the first tag line, 0 when there is none
TagIndex(lines) ==
    IF \E i \in 1..Len(lines) : IsTag(lines[i])
    THEN CHOOSE i \in 1..Len(lines) :
            IsTag(lines[i]) /\ \A j \in 1..(i - 1) : ~IsTag(lines[j])
    ELSE 0

\* the index of the first blank line after the tag line, one past the last
\* line when there is none
SummaryEnd(lines) ==
    LET after == {i \in (TagIndex(lines) + 1)..Len(lines) : IsBlank(lines[i])}
    IN IF after = {} THEN Len(lines) + 1
       ELSE CHOOSE i \in after : \A j \in after : i <= j

\* C24: when a line whose trimmed content is `[summary]` exists, the summary
\* is the lines that follow it up to the next blank line (None is accepted
\* for no line at all), and the body returned is the input without the tag
\* line, the summary lines and the blank line that ends them, every other
\* line kept in order; when no tag line exists the summary is None and the
\* body is the input.
C24_SummaryTakenOut ==
    Called("SummaryPreprocessor.run") =>
        LET lines == call.lines
            tag == TagIndex(lines)
            end == SummaryEnd(lines)
            taken == SubSeq(lines, tag + 1, end - 1)
        IN IF tag = 0
           THEN call.summary = None /\ call.ret = lines
           ELSE /\ \/ call.summary = StrV(JoinLines(taken))
                   \/ taken = <<>> /\ call.summary = None
                /\ call.ret = SubSeq(lines, 1, tag - 1) \o SubSeq(lines, end + 1, Len(lines))

(***************************************************************************)
(* The web API (src/flask_pblog/resources.py): a request with a token and  *)
(* a package, answered by a view behind auth_required.                     *)
(***************************************************************************)
SecretKey == "secret"

\* max_age=300, in the time units of the model
TokenMaxAge == 2

\* the X-Pblog-Token header: None when absent, else what was signed, with
\* which key and how long ago, or a string that is no signed value
Tokens ==
    {None} \cup [key : {SecretKey, "other"}, wellformed : BOOLEAN, age : 0..MaxTokenAge]

\* a validation that does not look at the age of the token
ValidateTokenAnyAge(token, secret_key, max_age) ==
    IF ~token.wellformed \/ token.key # secret_key THEN "BadSignature" ELSE "none"

\* security.validate_token: TimestampSigner.unsign checks the signature,
\* then the age; the exception raised
ValidateToken(token, secret_key, max_age) ==
    IF ~token.wellformed \/ token.key # secret_key THEN "BadSignature"
    ELSE IF token.age > max_age THEN "SignatureExpired"
    ELSE "none"

Response(status, body) == [status |-> status, body |-> body]

\* what a view leaves: its response (status 500 for an exception nothing
\* catches), the storage, the module-level parser and the Package it built
ViewResult(response, raised, store, parser, package) ==
    [response |-> response, raised |-> raised, storage |-> store, parser |-> parser,
     package |-> package, view_called |-> TRUE]

\* the decorator auth_required around a view, `viewed` being what the view
\* does when it is called
auth_required(token, viewed, store, parser) ==
    LET refused(message) ==
            [response |-> Response(401, [message |-> message]), raised |-> "none",
             storage |-> store, parser |-> parser, package |-> NoPackage,
             view_called |-> FALSE]
    IN IF token = None THEN refused("authentication_required")
       ELSE IF ValidateToken(token, SecretKey, TokenMaxAge) = "SignatureExpired"
       THEN refused("token_expired")
       ELSE IF ValidateToken(token, SecretKey, TokenMaxAge) = "BadSignature"
       THEN refused("invalid_token")
       ELSE viewed

\* the exceptions of read_package that are a PackageException
PackageExceptions == {"PackageException", "PackageValidationError", "ResourcesNotFound"}

\* Storage.create_post and Storage.update_post read title, slug, date,
\* category, markdown and html from what they are given
IsPostDefinition(post_definition) ==
    {"title", "slug", "date", "summary", "category", "markdown", "html"}
        \subseteq DOMAIN post_definition

StoredPost(post_definition) ==
    [title |-> post_definition.title, slug |-> post_definition.slug,
     published_date |-> post_definition.date, summary |-> post_definition.summary,
     category |-> post_definition.category, md_content |-> post_definition.markdown,
     html_content |-> post_definition.html]

\* Storage.create_post: the exception raised and the posts stored
create_post(store, post_definition) ==
    IF ~IsPostDefinition(post_definition)
    THEN [raised |-> "AttributeError", storage |-> store]
    ELSE [raised |-> "none", storage |-> Append(store, StoredPost(post_definition))]

\* Storage.update_post on the post with the identifier post_id
update_post(store, post_id, post_definition) ==
    IF ~IsPostDefinition(post_definition)
    THEN [raised |-> "AttributeError", storage |-> store]
    ELSE [raised |-> "none",
          storage |-> [store EXCEPT ![post_id] = StoredPost(post_definition)]]

\* what both views do with the package of the request, up to the call of the
\* storage: the response when read_package raised, else the Package; `read`
\* is what read_package returned or raised
ReadPosted(read, store, today) ==
    IF read.raised = "PackageValidationError"
    THEN ViewResult(Response(400, [errors |-> read.errors]), "none", store,
                    read.parser, NoPackage)
    ELSE IF read.raised \in PackageExceptions
    THEN ViewResult(Response(200, [errors |-> {"__all__"}]), "none", store,
                    read.parser, NoPackage)
    ELSE IF read.raised # "none"
    THEN ViewResult(Response(500, [message |-> "Internal Server Error"]),
                    read.raised, store, read.parser, NoPackage)
    ELSE ViewResult(Response(0, [message |-> "not answered yet"]), "none", store,
                    read.parser,
                    build_html_content(SetDefaultValuesResult(read.package, today)))

\* PostListResource.post, `posted` being what it did up to the storage
PostListResourcePost(posted, store) ==
    LET created == create_post(store, posted.package)
    IN IF posted.package = NoPackage THEN posted
       ELSE IF created.raised # "none"
       THEN [posted EXCEPT !.response = Response(500, [message |-> "Internal Server Error"]),
                           !.raised = created.raised]
       ELSE [posted EXCEPT !.response = Response(201, [id |-> Len(created.storage)]),
                           !.storage = created.storage]

\* PostResource.post, `posted` being what it does up to the storage once the
\* post was found
PostResourcePost(post_id, posted, store, parser) ==
    LET updated == update_post(store, post_id, posted.package)
    IN IF post_id \notin DOMAIN store
       THEN ViewResult(Response(404, [post |-> post_id]), "none", store, parser, NoPackage)
       ELSE IF posted.package = NoPackage THEN posted
       ELSE IF updated.raised # "none"
       THEN [posted EXCEPT !.response = Response(500, [message |-> "Internal Server Error"]),
                           !.raised = updated.raised]
       ELSE [posted EXCEPT !.response = Response(200, [id |-> post_id]),
                           !.storage = updated.storage]

\* an archive whose second referenced resource is missing: read_package
\* raises ResourcesNotFound
MissingResourceArchive ==
    <<Member(ManifestName, Manifest(<<"post.md">>, Utf8)),
      Member(<<"post.md">>,
             Encoded(Text(Meta(StrV(<<"b">>), StrV(<<"b">>)),
                          <<ImageRef(HamPath), ImageRef(ImgPath)>>, "\n"), Utf8)),
      Member(ResourceName(HamPath), Bytes(<<71>>))>>

PostedArchives == HandmadeArchives \cup {MissingResourceArchive}

\* the post the server may hold from the start
FirstPost ==
    [title |-> StrV(<<"b">>), slug |-> StrV(<<"b">>), published_date |-> DateV(1),
     summary |-> StrV(<<>>), category |-> StrV(<<"b">>),
     md_content |-> Text(Meta(StrV(<<"b">>), StrV(<<"b">>)), <<TextLine("World")>>, "\n"),
     html_content |-> Html(Text(NoMeta, <<TextLine("World")>>, "\n"))]

\* POST /posts (route 0) and POST /posts/<route>
Routes == 0..2

\* one request: its token, its route and the package it carries
Request ==
    /\ call = NoCall
    /\ \E token \in Tokens, route \in Routes, archive \in PostedArchives, today \in Dates :
          \E read \in {read_package(archive, markdown_parser)} :
          \E posted \in {ReadPosted(read, storage, today)} :
          \E viewed \in {IF route = 0 THEN PostListResourcePost(posted, storage)
                          ELSE PostResourcePost(route, posted, storage, markdown_parser)} :
          \E result \in {auth_required(token, viewed, storage, markdown_parser)} :
             /\ call' = [op |-> "request", token |-> token, route |-> route,
                         response |-> result.response, raised |-> result.raised,
                         view_called |-> result.view_called]
             /\ tar' = archive
             /\ storage' = result.storage
             /\ markdown_parser' = result.parser
             /\ pkg' = result.package
    /\ repeated' = "no"
    /\ UNCHANGED <<fs, built, threads, objects, remote>>

InitApi ==
    /\ storage \in {<<>>, <<FirstPost>>}
    /\ threads = <<>>
    /\ objects = NoObjects
    /\ remote = <<>>
    /\ call = NoCall
    /\ pkg = NoPackage
    /\ repeated = "no"
    /\ fs = EmptyFs
    /\ tar = <<>>
    /\ built = NoPackage
    /\ markdown_parser = FreshParser

NextApi == Request

SpecApi == InitApi /\ [][NextApi]_vars

\* the token of the request was signed with the key of the server no longer
\* than TokenMaxAge ago
TokenSigned == call.token # None /\ call.token.wellformed /\ call.token.key = SecretKey
TokenValid == TokenSigned /\ call.token.age <= TokenMaxAge

Refused(message) == call.response = Response(401, [message |-> message])

ReadPackageCalled == call'.view_called /\ (call'.route = 0 \/ call'.route \in DOMAIN storage)

\* C26: for POST /posts and POST /posts/<id>, whenever read_package fails
\* with PackageValidationError or another PackageException, the response
\* has status 400 and an `errors` dictionary, and the storage is left as it
\* was.
C26_PackageErrorsAre400 ==
    [][(/\ call'.op = "request"
        /\ ReadPackageCalled
        /\ read_package(tar', FreshParser).raised \in PackageExceptions) =>
          /\ call'.response.status = 400
          /\ "errors" \in DOMAIN call'.response.body
          /\ storage' = storage]_vars

(***************************************************************************)
(* Building over a destination: any post, built into a destination that is *)
(* empty or holds an archive already.                                      *)
(***************************************************************************)
InitBuild ==
    /\ \E text \in SourceTexts, charset \in Codecs : fs = BlogFs(Encoded(text, charset))
    /\ tar \in {<<>>, MissingResourceArchive}
    /\ built = NoPackage
    /\ markdown_parser = FreshParser
    /\ ServerIdle
    /\ pkg = NoPackage
    /\ call = NoCall
    /\ repeated = "no"

NextBuild == BuildPackage

SpecBuild == InitBuild /\ [][NextBuild]_vars

\* C27: when build_package fails with PackageValidationError or
\* ResourcesNotFound, nothing has been written to the destination: the post
\* is read, validated and its resources resolved before the archive is
\* opened.
C27_InvalidPostNotPackaged ==
    [][(/\ call'.op = "build_package"
        /\ call'.raised \in {"PackageValidationError", "ResourcesNotFound"}) =>
          tar' = tar /\ pkg' = pkg]_vars

\* a build over an existing archive failed for a missing resource
C27_Witness ==
    /\ Called("build_package")
    /\ call.raised = "ResourcesNotFound"
    /\ tar = MissingResourceArchive

(***************************************************************************)
(* Two threads in read_package at once.  The statements of read_package    *)
(* that touch the module-level parser are steps of their own: the convert  *)
(* of line 311, and the reads of markdown_parser.meta (312),               *)
(* markdown_parser.resource_path (315) and markdown_parser.summary (324).  *)
(***************************************************************************)
ThreadIds == 1..2

\* the packages the threads read: three posts that differ in title, summary
\* and resources
ThreadArchives ==
    {<<Member(ManifestName, Manifest(<<"post.md">>, Utf8)),
       PostMember(Meta(StrV(<<"b">>), StrV(<<"b">>)))>>,
     <<Member(ManifestName, Manifest(<<"post.md">>, Latin1)),
       Member(<<"post.md">>,
              Encoded(Text(Meta(StrV(<<"A", " ", "b">>), StrV(<<"b">>)),
                           <<TextLine("e-acute"), ImageRef(ImgPath)>>, "\n"), Latin1)),
       Member(ResourceName(ImgPath), Bytes(<<137, 80>>))>>,
     <<Member(ManifestName, Manifest(<<"post.md">>, Utf8)),
       Member(<<"post.md">>,
              Encoded(Text(MetaV([k \in {"title", "category", "slug"} |-> StrV(<<"a">>)]),
                           <<[kind |-> "summary", s |-> "Sum", path |-> <<>>],
                             ImageRef(HamPath)>>, "\n"), Utf8)),
       Member(ResourceName(HamPath), Bytes(<<71>>))>>}

\* a thread that is in no call
Idle ==
    [pc |-> "idle", archive |-> <<>>, post_md_content |-> NoText, post_encoding |-> None,
     post_meta |-> EmptyDict, resources |-> <<>>]

\* the call of thread t is over: it raised, or returned `package`
ThreadCall(t, raised, package) ==
    [op |-> "read_package in thread", thread |-> t, archive |-> threads[t].archive,
     raised |-> raised, package |-> package]

\* lines 305-311: the manifest, the post decoded, markdown_parser.convert
ConvertPost ==
    /\ \E t \in ThreadIds, archive \in ThreadArchives :
          /\ threads[t].pc = "idle"
          /\ LET package_meta == extract_package_meta(archive)
                 post_encoding == package_meta.meta["encoding"]
                 decoded == Decode(GetMember(archive, package_meta.meta["post"].v).content,
                                   post_encoding)
             IN /\ package_meta.raised = "none"
                /\ decoded.raised = "none"
                /\ markdown_parser' = Convert(decoded.text)
                /\ threads' = [threads EXCEPT ![t] =
                                  [Idle EXCEPT !.pc = "normalize", !.archive = archive,
                                               !.post_md_content = decoded.text,
                                               !.post_encoding = post_encoding]]
    /\ UNCHANGED <<pkg, call, repeated, fs, tar, built, storage, objects, remote>>

\* line 312: normalize_post_meta(markdown_parser.meta)
NormalizeMeta ==
    /\ \E t \in ThreadIds :
          /\ threads[t].pc = "normalize"
          /\ \E post_meta \in {normalize_post_meta(markdown_parser.meta)} :
                IF post_meta.raised # "none"
                THEN /\ threads' = [threads EXCEPT ![t] = Idle]
                     /\ call' = ThreadCall(t, post_meta.raised, NoPackage)
                ELSE /\ threads' = [threads EXCEPT ![t].pc = "resources",
                                                   ![t].post_meta = post_meta.meta]
                     /\ UNCHANGED call
    /\ UNCHANGED <<pkg, repeated, fs, tar, built, markdown_parser, storage, objects, remote>>

\* lines 313-315: extract_package_resources(tar, markdown_parser.resource_path)
ExtractResources ==
    /\ \E t \in ThreadIds :
          /\ threads[t].pc = "resources"
          /\ \E resources \in {extract_package_resources(threads[t].archive,
                                                          markdown_parser.resource_path)} :
                IF resources.raised # "none"
                THEN /\ threads' = [threads EXCEPT ![t] = Idle]
                     /\ call' = ThreadCall(t, resources.raised, NoPackage)
                ELSE /\ threads' = [threads EXCEPT ![t].pc = "package",
                                                   ![t].resources = resources.resources]
                     /\ UNCHANGED call
    /\ UNCHANGED <<pkg, repeated, fs, tar, built, markdown_parser, storage, objects, remote>>

\* lines 317-329: the Package, with summary=markdown_parser.summary
ReturnPackage ==
    /\ \E t \in ThreadIds :
          /\ threads[t].pc = "package"
          /\ threads' = [threads EXCEPT ![t] = Idle]
          /\ call' = ThreadCall(t, "none",
                Package(threads[t].post_meta["title"], threads[t].post_meta["category"],
                        threads[t].post_md_content, markdown_parser.summary,
                        threads[t].post_encoding, threads[t].post_meta["id"].v,
                        threads[t].post_meta["slug"],
                        threads[t].post_meta["published_date"],
                        threads[t].resources))
    /\ UNCHANGED <<pkg, repeated, fs, tar, built, markdown_parser, storage, objects, remote>>

InitShared ==
    /\ threads = [t \in ThreadIds |-> Idle]
    /\ storage = <<>>
    /\ objects = NoObjects
    /\ remote = <<>>
    /\ call = NoCall
    /\ pkg = NoPackage
    /\ repeated = "no"
    /\ fs = EmptyFs
    /\ tar = <<>>
    /\ built = NoPackage
    /\ markdown_parser = FreshParser

NextShared == ConvertPost \/ NormalizeMeta \/ ExtractResources \/ ReturnPackage

SpecShared == InitShared /\ [][NextShared]_vars

\* C28: every read_package call returns a Package whose title, category,
\* post_id, summary and resources come from its own input only, after any
\* earlier calls and for every interleaving of the steps of two calls that
\* share the module-level parser: it is the Package read_package returns for
\* that archive on its own.
C28_PackageFromOwnInput ==
    (Called("read_package in thread") /\ call.raised = "none") =>
        LET alone == read_package(call.archive, FreshParser).package
        IN /\ call.package.post_title = alone.post_title
           /\ call.package.category_name = alone.category_name
           /\ call.package.post_id = alone.post_id
           /\ call.package.summary = alone.summary
           /\ call.package.resources = alone.resources

(***************************************************************************)
(* Package objects and the dicts their post_id attributes refer to.        *)
(* `post_id={}` in the signature of Package.__init__ is one dict, made     *)
(* when the class is defined: self.post_id = post_id (line 434) makes the  *)
(* attribute refer to it whenever the argument is left out.  A dict given  *)
(* by the caller is the Package's own here.                                *)
(***************************************************************************)
Omitted == [t |-> "omitted"]

\* the Package object i as the program sees it: post_id read through the
\* reference
Object(i) ==
    IF objects.packages[i].post_id = Omitted
    THEN [objects.packages[i] EXCEPT !.post_id = objects.default_post_id]
    ELSE objects.packages[i]

\* Package(...) called by a caller of the library, with or without post_id
Construct ==
    /\ \E i \in PackageRefs, post_id \in {Omitted, EmptyDict, [e \in {"prod"} |-> IntV(1)]} :
          /\ objects' = [objects EXCEPT !.packages[i] =
                            Package(StrV(<<"b">>), StrV(<<"b">>),
                                    Text(NoMeta, <<TextLine("World")>>, "\n"), None,
                                    Utf8, post_id, None, None, <<>>)]
          /\ call' = [op |-> "Package", self |-> i, post_id |-> post_id]
    /\ UNCHANGED <<pkg, repeated, fs, codecVars, storage, threads, remote>>

\* update_post_meta on one of the objects: self.post_id.update(post_id) of
\* line 505 changes the dict the attribute refers to
UpdateObject ==
    /\ \E i \in PackageRefs, args \in DevArgs :
          /\ objects.packages[i] # NoPackage
          /\ \E updated \in {UpdatePostMetaResult(Object(i), args.post_id, args.post_slug,
                                                    args.published_date)} :
                objects' =
                    IF objects.packages[i].post_id = Omitted
                    THEN [default_post_id |-> updated.post_id,
                          packages |-> [objects.packages EXCEPT
                                           ![i] = [updated EXCEPT !.post_id = Omitted]]]
                    ELSE [objects EXCEPT !.packages[i] = updated]
          /\ call' = [op |-> "update_post_meta", self |-> i, args |-> args,
                      ret |-> NeedUpdate(Object(i), args.post_id, args.post_slug,
                                         args.published_date)]
    /\ UNCHANGED <<pkg, repeated, fs, codecVars, storage, threads, remote>>

InitObjects ==
    /\ objects = NoObjects
    /\ storage = <<>>
    /\ threads = <<>>
    /\ remote = <<>>
    /\ call = NoCall
    /\ pkg = NoPackage
    /\ repeated = "no"
    /\ fs = EmptyFs
    /\ tar = <<>>
    /\ built = NoPackage
    /\ markdown_parser = FreshParser

NextObjects == Construct \/ UpdateObject

SpecObjects == InitObjects /\ [][NextObjects]_vars

\* C29: two Package objects constructed without an explicit post_id share no
\* state: a Package constructed that way starts with an empty post_id, and
\* update_post_meta on one Package leaves the post_id of every other Package
\* as it was, after any sequence of constructions and updates.
C29_PackagesShareNoPostId ==
    [][\A i \in PackageRefs :
          /\ (call'.op = "Package" /\ call'.self = i /\ call'.post_id = Omitted) =>
                 Object(i)'.post_id = EmptyDict
          /\ (call'.op = "update_post_meta" /\ call'.self # i /\ objects.packages[i] # NoPackage) =>
                 Object(i)'.post_id = Object(i).post_id]_vars

(***************************************************************************)
(* The publish command of the command line: the source file at PostPath is *)
(* packaged, sent to the blog of the environment, and rewritten with what  *)
(* the blog answered.                                                      *)
(***************************************************************************)
\* str.encode(encoding) of a text that was decoded with `encoding`: the
\* characters garbled by reading UTF-8 as ISO-8859-1 become the UTF-8 bytes
\* again
Encode(text, encoding) ==
    LET garbled == \E i \in 1..Len(text.body) : text.body[i].s = "A-tilde copyright"
        restored == [text EXCEPT !.body = [i \in 1..Len(text.body) |->
                        IF text.body[i].s = "A-tilde copyright"
                        THEN [text.body[i] EXCEPT !.s = "e-acute"]
                        ELSE text.body[i]]]
    IN IF encoding = Latin1 /\ garbled THEN Encoded(restored, Utf8)
       ELSE Encoded(text, encoding)

\* package.post_id.get(env.name)
PostIdGet(post_id, env_name) ==
    IF env_name \in DOMAIN post_id THEN post_id[env_name] ELSE None

\* the request publish sends when it takes every id under the key for one
\* of the blog, null included
PublishRequestForKey(package, env_name) ==
    IF env_name \notin DOMAIN package.post_id
    THEN [name |-> "create_post", post_id |-> None]
    ELSE [name |-> "update_post", post_id |-> package.post_id[env_name]]

\* the request publish sends: lines 165-171
PublishRequest(package, env_name) ==
    IF PostIdGet(package.post_id, env_name) = None
    THEN [name |-> "create_post", post_id |-> None]
    ELSE [name |-> "update_post", post_id |-> package.post_id[env_name]]

\* what the blog answers to a request: the post with its id, its slug and
\* some date, or a status the client does not expect, or a body it cannot
\* validate
Answers(blog, request) ==
    {[raised |-> e, id |-> None, post_slug |-> None, published_date |-> None] :
        e \in {"UnexpectedResponse", "ResponseContentError"}}
    \cup
    {[raised |-> "none", id |-> id, post_slug |-> post_slug, published_date |-> d] :
        id \in IF request.name = "create_post" THEN Ids \ blog.posts
               ELSE {request.post_id} \cap blog.posts,
        post_slug \in {StrV(<<"b">>)},
        d \in Dates}

\* the command did not get as far as a request
NoRequest == [name |-> "none", post_id |-> None]

PublishCall(env_name, encoding, raised, request, answer_id, ret) ==
    [op |-> "publish", env |-> env_name, encoding |-> encoding, raised |-> raised,
     request |-> request, id |-> answer_id, ret |-> ret]

\* client.authenticate fails: lines 144-150
PublishRefused ==
    /\ \E env_name \in Envs, encoding \in Encodings :
          call' = PublishCall(env_name, encoding, "ClickException", NoRequest, None, FALSE)
    /\ repeated' = "no"
    /\ UNCHANGED <<pkg, fs, codecVars, serverVars>>

\* publish, once authenticated: lines 152-188
Publish ==
    /\ \E env_name \in Envs, encoding \in Encodings :
        \E result \in {build_package(fs, tar, markdown_parser, PostPath, encoding, FALSE)} :
          /\ tar' = result.tar
          /\ markdown_parser' = result.parser
          /\ built' = IF result.tar = tar /\ result.raised # "none" THEN built
                      ELSE result.package
          /\ IF result.raised # "none"
             THEN /\ call' = PublishCall(env_name, encoding,
                                 IF result.raised \in PackageExceptions
                                 THEN "ClickException" ELSE result.raised,
                                 NoRequest, None, FALSE)
                  /\ UNCHANGED <<pkg, fs, remote>>
             ELSE \E answer \in Answers(remote[env_name], PublishRequest(result.package, env_name)) :
                    IF answer.raised # "none"
                    THEN /\ call' = PublishCall(env_name, encoding,
                                        IF answer.raised = "UnexpectedResponse"
                                        THEN "ClickException" ELSE answer.raised,
                                        PublishRequest(result.package, env_name), None, FALSE)
                         /\ pkg' = result.package
                         /\ UNCHANGED <<fs, remote>>
                    ELSE LET post_id == [e \in {env_name} |-> answer.id]
                             ret == NeedUpdate(result.package, post_id, answer.post_slug,
                                               answer.published_date)
                             updated == UpdatePostMetaResult(result.package, post_id,
                                            answer.post_slug, answer.published_date)
                         IN /\ call' = PublishCall(env_name, encoding, "none",
                                           PublishRequest(result.package, env_name), answer.id, ret)
                            /\ pkg' = updated
                            /\ fs' = IF ret
                                     THEN [fs EXCEPT !.files[PostPath.parts] =
                                              Encode(updated.markdown_content, encoding)]
                                     ELSE fs
                            /\ remote' =
                                  IF PublishRequest(result.package, env_name).name = "create_post"
                                  THEN [remote EXCEPT ![env_name].posts = @ \cup {answer.id},
                                                      ![env_name].created = answer.id]
                                  ELSE remote
    /\ repeated' = "no"
    /\ UNCHANGED <<storage, threads, objects>>

\* the source files published: without an id, with the id of a post of dev,
\* with a null id for dev, without front matter; one with a reference that
\* is missing and one with characters outside ASCII, in both charsets
PublishMetas ==
    {Meta(StrV(<<"A", " ", "b">>), StrV(<<"b">>)),
     MetaV([k \in {"title", "category", "id"} |->
              IF k = "id" THEN [t |-> "dict", v |-> [e \in {"dev"} |-> IntV(1)]]
              ELSE StrV(<<"b">>)]),
     MetaV([k \in {"title", "category", "id"} |->
              IF k = "id" THEN [t |-> "dict", v |-> [e \in {"dev"} |-> None]]
              ELSE StrV(<<"b">>)]),
     NoMeta}

PublishFiles ==
    {Encoded(Text(meta, <<TextLine("World")>>, "\n"), Utf8) : meta \in PublishMetas}
    \cup {Encoded(Text(Meta(StrV(<<"b">>), StrV(<<"b">>)),
                        <<ImageRef(Path(FALSE, <<"missing.png">>))>>, "\n"), Utf8)}
    \cup {Encoded(Text(Meta(StrV(<<"b">>), StrV(<<"b">>)),
                        <<TextLine("e-acute"), ImageRef(ImgPath)>>, "\r\n"), charset) :
             charset \in Codecs}

InitPublish ==
    /\ \E post \in PublishFiles : fs = BlogFs(post)
    /\ \E posts \in SUBSET Ids :
          remote = [e \in Envs |-> [posts |-> IF e = "dev" THEN posts ELSE {},
                                    created |-> None]]
    /\ storage = <<>>
    /\ threads = <<>>
    /\ objects = NoObjects
    /\ tar = <<>>
    /\ built = NoPackage
    /\ markdown_parser = FreshParser
    /\ pkg = NoPackage
    /\ call = NoCall
    /\ repeated = "no"

NextPublish == PublishRefused \/ Publish

SpecPublish == InitPublish /\ [][NextPublish]_vars

\* the id the front matter of the source file holds for an environment
FileId(state, env_name) ==
    LET meta == state.files[PostPath.parts].v.text.meta
    IN IF meta = NoMeta THEN None
       ELSE IF "id" \notin DOMAIN meta.v THEN None
       ELSE PostIdGet(meta.v["id"].v, env_name)

\* C30: publish calls create_post exactly when the package holds no non-null
\* id for the current environment, and update_post with that id otherwise;
\* a publish that created post N leaves the source file with id[E] = N, and
\* from then on the file keeps that id, so no later publish to E calls
\* create_post and each one that reaches the blog calls update_post(N); the
\* source file is rewritten only after the blog answered the request with
\* success and only when update_post_meta returned true.
C30_PublishCreatesOnce ==
    [][call'.op = "publish" =>
          /\ call'.request.name = "create_post" =>
                 /\ FileId(fs, call'.env) = None
                 /\ remote[call'.env].created = None
          /\ call'.request.name = "update_post" =>
                 /\ FileId(fs, call'.env) # None
                 /\ call'.request.post_id = FileId(fs, call'.env)
                 /\ remote[call'.env].created \in {None, call'.request.post_id}
          /\ (call'.request.name = "create_post" /\ call'.raised = "none") =>
                 /\ FileId(fs', call'.env) = call'.id
                 /\ remote'[call'.env].created = call'.id
          /\ \A e \in Envs :
                 remote[e].created # None => FileId(fs', e) = remote[e].created
          /\ fs' # fs => (call'.raised = "none" /\ call'.id # None /\ call'.ret)]_vars

\* a publish to an environment that created the post of the file before: it
\* reached the blog and asked for an update
C30_Witness ==
    /\ Called("publish")
    /\ call.raised = "none"
    /\ call.request.name = "update_post"
    /\ remote[call.env].created = call.request.post_id
    /\ call.ret

====
